---- MODULE Spec2Model ----
(***************************************************************************)
(* A model of the package github.com/ungerik/go-reflection: pointer/value  *)
(* normalisation, flattening of anonymous struct fields, tag-derived field *)
(* names, zero-value detection and field validation.                       *)
(*                                                                         *)
(* Go strings are sequences of one-character strings, so that splitting at *)
(* a comma, searching for a hyphen and concatenation are computed.         *)
(* A Go value (together with its static type) is a record with a "kind":   *)
(*   int, string, ptr, struct, slice, array, map.                          *)
(* A struct value carries its reflect.StructField list: every field has    *)
(* name, exported, anonymous, tag and the value stored in it.              *)
(* A nil pointer keeps in "elem" the zero value of its element type: that  *)
(* is its static type (reflect.Type.Elem), never read as a value.          *)
(* Every entry an operation returns carries "src", the index path of the   *)
(* field it was made from (and the element index for slice elements): the  *)
(* identity of the reflect.StructField, used to say which field an entry   *)
(* belongs to.                                                             *)
(***************************************************************************)
EXTENDS Integers, Sequences, FiniteSets, TLC

VARIABLES st, nameTag, namePrefix, namesToValidate, validateFunc, consumer,
          op, res, loop

vars ==
  <<st, nameTag, namePrefix, namesToValidate, validateFunc, consumer, op, res,
    loop>>

(***************************************************************************)
(* Strings                                                                 *)
(***************************************************************************)

\* strings.IndexByte / strings.IndexRune: the first position of c in s
\* (1-based), 0 when c does not occur (Go: -1).
IndexByte(s, c) ==
  IF \E i \in 1..Len(s) : s[i] = c
    THEN CHOOSE i \in 1..Len(s) : s[i] = c /\ \A j \in 1..(i-1) : s[j] # c
    ELSE 0

\* strings.Contains(s, c) for a one-character c.
Contains(s, c) == \E i \in 1..Len(s) : s[i] = c

\* fmt.Sprintf("%s[%d]", name, j), j the 0-based Go index.
IndexedName(name, j) == name \o <<"[", ToString(j), "]">>

(***************************************************************************)
(* Values                                                                  *)
(***************************************************************************)

IntV(n) == [kind |-> "int", n |-> n]
StrV(s) == [kind |-> "string", s |-> s]
PtrV(isNil, elem) == [kind |-> "ptr", isNil |-> isNil, elem |-> elem]
StructV(fields) == [kind |-> "struct", fields |-> fields]
SliceV(isNil, elems) == [kind |-> "slice", isNil |-> isNil, elems |-> elems]
ArrayV(elems) == [kind |-> "array", elems |-> elems]
MapV(isNil) == [kind |-> "map", isNil |-> isNil]
ChanV(isNil) == [kind |-> "chan", isNil |-> isNil]
FuncV(isNil) == [kind |-> "func", isNil |-> isNil]
\* A reflect.Value of interface kind (a field or element of interface
\* type), nil or holding something.
InterfaceV(isNil) == [kind |-> "interface", isNil |-> isNil]
UnsafePointerV(isNil) == [kind |-> "unsafe.Pointer", isNil |-> isNil]
\* The zero reflect.Value, reflect.ValueOf(nil): a nil `any`.
InvalidV == [kind |-> "invalid"]

\* reflect.Value.IsValid
IsValid(v) == v.kind # "invalid"

\* The tag key the modelled struct tags are written under: `tag:"..."`.
TagKey == "tag"

NoTag == [has |-> FALSE, val |-> <<>>]
Tag(val) == [has |-> TRUE, val |-> val]

\* reflect.StructTag.Lookup: a key other than the one written in the tag,
\* the empty key included, is never found.
TagLookup(tag, key) ==
  IF tag.has /\ key = TagKey THEN [ok |-> TRUE, val |-> tag.val]
                             ELSE [ok |-> FALSE, val |-> <<>>]

\* reflect.StructTag.Get: the value, "" when the key is not found.
TagGet(tag, key) == TagLookup(tag, key).val

\* What an operation yields: a panic, or its output.
Ok(out) == [panicked |-> FALSE, out |-> out, calls |-> <<>>]
Panic == [panicked |-> TRUE, out |-> <<>>, calls |-> <<>>]

\* append(a, b...) where evaluating b may panic; a panic of a is kept.
\* "calls" records the validateFunc invocations made so far: they stay
\* made when a later step panics.
Then(a, b) ==
  IF a.panicked THEN a
  ELSE [panicked |-> b.panicked,
        out |-> IF b.panicked THEN <<>> ELSE a.out \o b.out,
        calls |-> a.calls \o b.calls]

(***************************************************************************)
(* Pointer/value normalisation                                             *)
(***************************************************************************)

RECURSIVE DerefValue(_)
\* for v.Kind() == reflect.Ptr && !v.IsNil() { v = v.Elem() }
DerefValue(v) ==
  IF v.kind = "ptr" /\ ~v.isNil THEN DerefValue(v.elem) ELSE v

RECURSIVE DerefType(_)
\* for t.Kind() == reflect.Ptr { t = t.Elem() }: on the type, nil or not.
DerefType(t) ==
  IF t.kind = "ptr" THEN DerefType(t.elem) ELSE t

\* DerefValueAndType taking the type's element for a nil pointer.
DerefValueAndTypeThroughNil(val) ==
  [v |-> DerefType(val), canAddr |-> val.kind = "ptr" /\ ~val.isNil,
   panicked |-> ~IsValid(val)]

\* DerefValueAndType(val any): the dereferenced value; it is addressable
\* exactly when it was reached through a pointer (reflect.Value.Elem),
\* a value held in an interface is not addressable.
\* v.Type() panics for the invalid Value of a nil `any`.
DerefValueAndType(val) ==
  [v |-> DerefValue(val), canAddr |-> val.kind = "ptr" /\ ~val.isNil,
   panicked |-> ~IsValid(DerefValue(val))]

RECURSIVE Zero(_)
\* reflect.Zero(reflect.TypeOf(v)).Interface()
Zero(v) ==
  CASE v.kind = "int" -> IntV(0)
    [] v.kind = "string" -> StrV(<<>>)
    [] v.kind = "ptr" -> PtrV(TRUE, Zero(v.elem))
    [] v.kind = "struct" ->
         StructV([i \in 1..Len(v.fields) |->
                    [v.fields[i] EXCEPT !.val = Zero(v.fields[i].val)]])
    [] v.kind = "slice" -> SliceV(TRUE, <<>>)
    [] v.kind = "array" -> ArrayV([i \in 1..Len(v.elems) |-> Zero(v.elems[i])])
    [] v.kind = "map" -> MapV(TRUE)
    [] v.kind = "chan" -> ChanV(TRUE)
    [] v.kind = "func" -> FuncV(TRUE)
    [] v.kind = "unsafe.Pointer" -> UnsafePointerV(TRUE)

RECURSIVE DeepEqual(_, _)
\* reflect.DeepEqual on two values of one type. Pointers: equal when both
\* nil; a nil and a non-nil pointer differ (Elem of the nil one is
\* invalid); two non-nil pointers are equal when their pointees are.
\* Slices and maps: a nil and a non-nil one differ.
DeepEqual(a, b) ==
  IF a.kind # b.kind THEN FALSE
  ELSE CASE a.kind = "int" -> a.n = b.n
         [] a.kind = "string" -> a.s = b.s
         [] a.kind = "ptr" ->
              IF a.isNil \/ b.isNil THEN a.isNil /\ b.isNil
              ELSE DeepEqual(a.elem, b.elem)
         [] a.kind = "struct" ->
              /\ Len(a.fields) = Len(b.fields)
              /\ \A i \in 1..Len(a.fields) :
                   DeepEqual(a.fields[i].val, b.fields[i].val)
         [] a.kind = "slice" ->
              /\ a.isNil = b.isNil
              /\ Len(a.elems) = Len(b.elems)
              /\ \A i \in 1..Len(a.elems) : DeepEqual(a.elems[i], b.elems[i])
         [] a.kind = "array" ->
              /\ Len(a.elems) = Len(b.elems)
              /\ \A i \in 1..Len(a.elems) : DeepEqual(a.elems[i], b.elems[i])
         [] a.kind = "map" -> a.isNil = b.isNil
         [] a.kind \in {"chan", "unsafe.Pointer"} -> a = b
         [] a.kind = "func" -> a.isNil /\ b.isNil

\* IsZero deciding a pointer by what it points to.
IsZeroOfPointee(v) ==
  ~IsValid(v) \/ DeepEqual(DerefValue(v), Zero(DerefValue(v)))

\* IsZero(v any): v == nil || reflect.DeepEqual(v, reflect.Zero(...))
IsZero(v) == ~IsValid(v) \/ DeepEqual(v, Zero(v))

\* The kinds reflect.Value.IsNil is defined for.
NilableKinds ==
  {"chan", "func", "interface", "map", "ptr", "slice", "unsafe.Pointer"}

\* reflect.Value.IsNil: panics for a value of any other kind, the invalid
\* Value included.
ValueIsNil(v) == IF v.kind \in NilableKinds THEN Ok(v.isNil) ELSE Panic

\* IsNil calling reflect.Value.IsNil whatever the kind.
IsNilOfAnyKind(v) == IF ~IsValid(v) THEN Ok(TRUE) ELSE ValueIsNil(v)

\* IsNil(v reflect.Value) bool
IsNil(v) ==
  IF ~IsValid(v) THEN Ok(TRUE)
  ELSE IF v.kind \in {"chan", "func", "map", "ptr", "interface", "slice"}
    THEN ValueIsNil(v)
  ELSE Ok(FALSE)

(***************************************************************************)
(* Name resolution                                                         *)
(***************************************************************************)

\* The part of a tag value before the first comma (all of it without one).
BeforeComma(s) ==
  IF IndexByte(s, ",") # 0 THEN SubSeq(s, 1, IndexByte(s, ",") - 1) ELSE s

\* exportedFieldName(field, nameTag) (name string, valid bool)
exportedFieldName(field, tagKey) ==
  IF ~field.exported THEN [name |-> <<>>, valid |-> FALSE]
  ELSE LET t == TagLookup(field.tag, tagKey)
           name == BeforeComma(t.val)
       IN IF ~t.ok THEN [name |-> field.name, valid |-> TRUE]
          ELSE IF name = <<"-">> THEN [name |-> <<>>, valid |-> FALSE]
          ELSE [name |-> name, valid |-> TRUE]

\* getFieldName leaving the prefix out.
getFieldNameNoPrefix(field, prefix, tagKey) ==
  LET raw == TagGet(field.tag, tagKey)
      name == BeforeComma(raw)
  IN [name |-> IF name = <<>> THEN field.name ELSE name, ext |-> <<>>]

\* getFieldName without the split at the comma.
getFieldNameWholeTag(field, prefix, tagKey) ==
  LET raw == TagGet(field.tag, tagKey)
  IN [name |-> prefix \o (IF raw = <<>> THEN field.name ELSE raw),
      ext |-> <<>>]

\* getFieldName(field, namePrefix, nameTag) (name string, ext string)
getFieldName(field, prefix, tagKey) ==
  LET raw == TagGet(field.tag, tagKey)
      comma == IndexByte(raw, ",")
      name == IF comma # 0 THEN SubSeq(raw, 1, comma - 1) ELSE raw
      ext == IF comma # 0 THEN SubSeq(raw, comma + 1, Len(raw)) ELSE <<>>
  IN [name |-> prefix \o (IF name = <<>> THEN field.name ELSE name),
      ext |-> ext]

\* ignoreField comparing the name with "-" instead of searching it.
ignoreFieldLiteral(names, name) ==
  IF Len(names) = 0 THEN name = <<"-">>
  ELSE IF \E i \in 1..Len(names) : names[i] = name THEN name = <<"-">>
  ELSE TRUE

\* ignoreField without the allow-list.
ignoreFieldNoAllowList(names, name) == Contains(name, "-")

\* ignoreField accepting a name that a listed name begins.
ignoreFieldListedPrefix(names, name) ==
  IF Len(names) = 0 THEN Contains(name, "-")
  ELSE IF \E i \in 1..Len(names) :
            /\ Len(names[i]) <= Len(name)
            /\ SubSeq(name, 1, Len(names[i])) = names[i]
    THEN Contains(name, "-")
  ELSE TRUE

\* ignoreField(namesToValidate, name, _) bool
ignoreField(names, name) ==
  IF Len(names) = 0 THEN Contains(name, "-")
  ELSE IF \E i \in 1..Len(names) : names[i] = name THEN Contains(name, "-")
  ELSE TRUE

(***************************************************************************)
(* Flattening traversal                                                    *)
(***************************************************************************)

\* One flattened entry: the field it comes from (src), its declared name
\* (reflect.StructField.Name), its value and, where one is resolved, Name.
Entry(src, f, name) ==
  [src |-> src, field |-> f.name, name |-> name, value |-> f.val]

RECURSIVE FlatStructFieldNames(_, _)
RECURSIVE FlatStructFieldNamesLoop(_, _, _)

\* FlatStructFieldNames, loop body with the anonymous field itself emitted
\* before its flattened fields.
FlatStructFieldNamesEmitAnonymous(f, src) ==
  IF f.anonymous
    THEN Then(Ok(<<Entry(src, f, f.name)>>), FlatStructFieldNames(f.val, src))
    ELSE Ok(<<Entry(src, f, f.name)>>)

\* FlatStructFieldNames, loop body.
FlatStructFieldNamesField(f, src) ==
  IF f.anonymous THEN FlatStructFieldNames(f.val, src)
                 ELSE Ok(<<Entry(src, f, f.name)>>)

FlatStructFieldNamesLoop(t, path, i) ==
  IF i > Len(t.fields) THEN Ok(<<>>)
  ELSE Then(FlatStructFieldNamesField(t.fields[i], path \o <<i>>),
            FlatStructFieldNamesLoop(t, path, i + 1))

\* FlatStructFieldNames(t reflect.Type): t.NumField() panics on a type that
\* is no struct.
FlatStructFieldNames(t, path) ==
  LET dt == DerefType(t)
  IN IF dt.kind # "struct" THEN Panic ELSE FlatStructFieldNamesLoop(dt, path, 1)

RECURSIVE FlatExportedStructFields(_, _)
RECURSIVE FlatExportedStructFieldsLoop(_, _, _)

\* FlatExportedStructFields, loop body.
FlatExportedStructFieldsField(f, src) ==
  IF f.anonymous THEN FlatExportedStructFields(f.val, src)
  ELSE IF f.exported THEN Ok(<<Entry(src, f, f.name)>>)
  ELSE Ok(<<>>)

FlatExportedStructFieldsLoop(v, path, i) ==
  IF i > Len(v.fields) THEN Ok(<<>>)
  ELSE Then(FlatExportedStructFieldsField(v.fields[i], path \o <<i>>),
            FlatExportedStructFieldsLoop(v, path, i + 1))

\* FlatExportedStructFields(val any)
FlatExportedStructFields(val, path) ==
  LET d == DerefValueAndType(val)
  IN IF d.v.kind # "struct" THEN Panic
     ELSE FlatExportedStructFieldsLoop(d.v, path, 1)

RECURSIVE FlatExportedStructFieldValueNames(_, _, _)
RECURSIVE FlatExportedStructFieldValueNamesLoop(_, _, _, _)

\* FlatExportedStructFieldValueNames, loop body.
FlatExportedStructFieldValueNamesField(f, tagKey, src) ==
  IF f.anonymous THEN FlatExportedStructFieldValueNames(f.val, tagKey, src)
  ELSE LET n == exportedFieldName(f, tagKey)
       IN IF n.valid THEN Ok(<<Entry(src, f, n.name)>>) ELSE Ok(<<>>)

FlatExportedStructFieldValueNamesLoop(v, tagKey, path, i) ==
  IF i > Len(v.fields) THEN Ok(<<>>)
  ELSE Then(FlatExportedStructFieldValueNamesField(v.fields[i], tagKey, path \o <<i>>),
            FlatExportedStructFieldValueNamesLoop(v, tagKey, path, i + 1))

\* FlatExportedStructFieldValueNames(val any, nameTag string)
FlatExportedStructFieldValueNames(val, tagKey, path) ==
  LET d == DerefValueAndType(val)
  IN IF d.v.kind # "struct" THEN Panic
     ELSE FlatExportedStructFieldValueNamesLoop(d.v, tagKey, path, 1)

RECURSIVE flatExportedStructFieldValueNameMap(_, _, _, _)
RECURSIVE flatExportedStructFieldValueNameMapLoop(_, _, _, _, _)

\* flatExportedStructFieldValueNameMap, loop body: fields[name] = ...
\* The map is the sequence of its entries, at most one per key, a later
\* assignment replacing the entry of the same key.
flatExportedStructFieldValueNameMapField(f, tagKey, fields, src) ==
  IF f.anonymous THEN flatExportedStructFieldValueNameMap(f.val, tagKey, fields, src)
  ELSE LET n == exportedFieldName(f, tagKey)
       IN IF n.valid
            THEN Ok(SelectSeq(fields, LAMBDA e : e.name # n.name)
                      \o <<Entry(src, f, n.name)>>)
            ELSE Ok(fields)

flatExportedStructFieldValueNameMapLoop(v, tagKey, fields, path, i) ==
  IF i > Len(v.fields) THEN Ok(fields)
  ELSE LET r == flatExportedStructFieldValueNameMapField(
                  v.fields[i], tagKey, fields, path \o <<i>>)
       IN IF r.panicked THEN r
          ELSE flatExportedStructFieldValueNameMapLoop(v, tagKey, r.out, path, i + 1)

flatExportedStructFieldValueNameMap(val, tagKey, fields, path) ==
  LET d == DerefValueAndType(val)
  IN IF d.v.kind # "struct" THEN Panic
     ELSE flatExportedStructFieldValueNameMapLoop(d.v, tagKey, fields, path, 1)

\* FlatExportedStructFieldValueNameMap(val any, nameTag string)
FlatExportedStructFieldValueNameMap(val, tagKey) ==
  flatExportedStructFieldValueNameMap(val, tagKey, <<>>, <<>>)

RECURSIVE FlatExportedNamedStructFields(_, _, _)
RECURSIVE FlatExportedNamedStructFieldsLoop(_, _, _, _)

\* FlatExportedNamedStructFields, loop body.
FlatExportedNamedStructFieldsField(f, tagKey, src) ==
  IF f.anonymous THEN FlatExportedNamedStructFields(f.val, tagKey, src)
  ELSE LET n == exportedFieldName(f, tagKey)
       IN IF n.valid THEN Ok(<<Entry(src, f, n.name)>>) ELSE Ok(<<>>)

FlatExportedNamedStructFieldsLoop(t, tagKey, path, i) ==
  IF i > Len(t.fields) THEN Ok(<<>>)
  ELSE Then(FlatExportedNamedStructFieldsField(t.fields[i], tagKey, path \o <<i>>),
            FlatExportedNamedStructFieldsLoop(t, tagKey, path, i + 1))

\* FlatExportedNamedStructFields(t reflect.Type, nameTag string)
FlatExportedNamedStructFields(t, tagKey, path) ==
  LET dt == DerefType(t)
  IN IF dt.kind # "struct" THEN Panic
     ELSE FlatExportedNamedStructFieldsLoop(dt, tagKey, path, 1)

RECURSIVE FlatStructFieldCount(_)
RECURSIVE FlatStructFieldCountLoop(_, _)

\* FlatStructFieldCount, loop body: what the field adds to count.
FlatStructFieldCountField(f) ==
  IF f.anonymous THEN FlatStructFieldCount(f.val) ELSE Ok(1)

\* count += ... for the fields from i on; a panic leaves no count.
FlatStructFieldCountLoop(t, i) ==
  IF i > Len(t.fields) THEN Ok(0)
  ELSE LET a == FlatStructFieldCountField(t.fields[i])
           b == FlatStructFieldCountLoop(t, i + 1)
       IN IF a.panicked \/ b.panicked THEN Panic ELSE Ok(a.out + b.out)

\* FlatStructFieldCount(t reflect.Type): t.NumField() panics on a type that
\* is no struct.
FlatStructFieldCount(t) ==
  LET dt == DerefType(t)
  IN IF dt.kind # "struct" THEN Panic ELSE FlatStructFieldCountLoop(dt, 1)

\* FlatStructFieldTags, loop body: the names, not the tags, of the fields
\* of an embedded struct.
FlatStructFieldTagsField(f, tagKey, src) ==
  IF f.anonymous THEN FlatStructFieldNames(f.val, src)
                 ELSE Ok(<<Entry(src, f, TagGet(f.tag, tagKey))>>)

RECURSIVE FlatStructFieldTagsLoop(_, _, _, _)
FlatStructFieldTagsLoop(t, tagKey, path, i) ==
  IF i > Len(t.fields) THEN Ok(<<>>)
  ELSE Then(FlatStructFieldTagsField(t.fields[i], tagKey, path \o <<i>>),
            FlatStructFieldTagsLoop(t, tagKey, path, i + 1))

\* FlatStructFieldTags(t reflect.Type, tagKey string)
FlatStructFieldTags(t, tagKey, path) ==
  LET dt == DerefType(t)
  IN IF dt.kind # "struct" THEN Panic
     ELSE FlatStructFieldTagsLoop(dt, tagKey, path, 1)

\* FlatStructFieldTagsOrNames, loop body: the whole tag value, the field
\* name when it is empty.
FlatStructFieldTagsOrNamesField(f, tagKey, src) ==
  IF f.anonymous THEN FlatStructFieldNames(f.val, src)
  ELSE Ok(<<Entry(src, f, IF TagGet(f.tag, tagKey) = <<>> THEN f.name
                           ELSE TagGet(f.tag, tagKey))>>)

RECURSIVE FlatStructFieldTagsOrNamesLoop(_, _, _, _)
FlatStructFieldTagsOrNamesLoop(t, tagKey, path, i) ==
  IF i > Len(t.fields) THEN Ok(<<>>)
  ELSE Then(FlatStructFieldTagsOrNamesField(t.fields[i], tagKey, path \o <<i>>),
            FlatStructFieldTagsOrNamesLoop(t, tagKey, path, i + 1))

\* FlatStructFieldTagsOrNames(t reflect.Type, tagKey string)
FlatStructFieldTagsOrNames(t, tagKey, path) ==
  LET dt == DerefType(t)
  IN IF dt.kind # "struct" THEN Panic
     ELSE FlatStructFieldTagsOrNamesLoop(dt, tagKey, path, 1)

RECURSIVE FlatStructFieldValues(_, _)
RECURSIVE FlatStructFieldValuesLoop(_, _, _)

\* FlatStructFieldValues, loop body.
FlatStructFieldValuesField(f, src) ==
  IF f.anonymous THEN FlatStructFieldValues(f.val, src)
                 ELSE Ok(<<Entry(src, f, f.name)>>)

FlatStructFieldValuesLoop(v, path, i) ==
  IF i > Len(v.fields) THEN Ok(<<>>)
  ELSE Then(FlatStructFieldValuesField(v.fields[i], path \o <<i>>),
            FlatStructFieldValuesLoop(v, path, i + 1))

\* FlatStructFieldValues(v reflect.Value): v.Type().NumField() panics when
\* the dereferenced value is no struct, a nil pointer included.
FlatStructFieldValues(val, path) ==
  LET v == DerefValue(val)
  IN IF v.kind # "struct" THEN Panic ELSE FlatStructFieldValuesLoop(v, path, 1)

\* One invocation of a callback or of yield with the entry e.
Invoke(e) == [panicked |-> FALSE, out |-> <<>>, calls |-> <<e>>]

RECURSIVE EnumFlatExportedStructFields(_, _)
RECURSIVE EnumFlatExportedStructFieldsLoop(_, _, _)

\* The loop body of EnumFlatExportedStructFields without the test of
\* IsExported.
EnumFlatStructFieldsField(f, src) ==
  IF f.anonymous THEN EnumFlatExportedStructFields(f.val, src)
                 ELSE Invoke(Entry(src, f, f.name))

\* EnumFlatExportedStructFields, loop body.
EnumFlatExportedStructFieldsField(f, src) ==
  IF f.anonymous THEN EnumFlatExportedStructFields(f.val, src)
  ELSE IF f.exported THEN Invoke(Entry(src, f, f.name))
  ELSE Ok(<<>>)

EnumFlatExportedStructFieldsLoop(v, path, i) ==
  IF i > Len(v.fields) THEN Ok(<<>>)
  ELSE Then(EnumFlatExportedStructFieldsField(v.fields[i], path \o <<i>>),
            EnumFlatExportedStructFieldsLoop(v, path, i + 1))

\* EnumFlatExportedStructFields(val any, callback): the callback
\* invocations are recorded in "calls"; those made before a panic stay
\* made.
EnumFlatExportedStructFields(val, path) ==
  LET d == DerefValueAndType(val)
  IN IF d.v.kind # "struct" THEN Panic
     ELSE EnumFlatExportedStructFieldsLoop(d.v, path, 1)

\* The state of one consumption of an iterator: the entries yielded so
\* far, how many more yields the consumer accepts before yield returns
\* false (-1: all of them), whether yield has returned false, and whether
\* the iteration panicked.
Consuming(left) ==
  [panicked |-> FALSE, out |-> <<>>, calls |-> <<>>, stopped |-> FALSE,
   left |-> left]

\* if !yield(field, val) { return }
Yield(acc, e) ==
  [acc EXCEPT !.calls = acc.calls \o <<e>>,
              !.stopped = (acc.left = 1),
              !.left = IF acc.left = -1 THEN -1 ELSE acc.left - 1]

RECURSIVE FlatExportedStructFieldsIter(_, _, _)
RECURSIVE FlatExportedStructFieldsIterLoop(_, _, _, _)

RECURSIVE FlatExportedStructFieldsIterLoopInnerStopOnly(_, _, _, _)
\* The iterator function's loop going on with the next field after the
\* iterator of an embedded field was stopped by the consumer.
FlatExportedStructFieldsIterLoopInnerStopOnly(v, path, i, acc) ==
  IF i > Len(v.fields) \/ acc.stopped \/ acc.panicked THEN acc
  ELSE LET f == v.fields[i]
           src == path \o <<i>>
       IN FlatExportedStructFieldsIterLoopInnerStopOnly(v, path, i + 1,
            IF f.anonymous
              THEN [FlatExportedStructFieldsIter(f.val, src, acc)
                      EXCEPT !.stopped = FALSE]
            ELSE IF f.exported THEN Yield(acc, Entry(src, f, f.name))
            ELSE acc)

RECURSIVE FlatExportedStructFieldsIterLoopSkipEmbedded(_, _, _, _)
\* The iterator function's loop passing over embedded fields.
FlatExportedStructFieldsIterLoopSkipEmbedded(v, path, i, acc) ==
  IF i > Len(v.fields) \/ acc.stopped \/ acc.panicked THEN acc
  ELSE LET f == v.fields[i]
       IN FlatExportedStructFieldsIterLoopSkipEmbedded(v, path, i + 1,
            IF ~f.anonymous /\ f.exported
              THEN Yield(acc, Entry(path \o <<i>>, f, f.name))
              ELSE acc)

\* The iterator function's loop from field i on: an embedded field is
\* ranged over by an iterator of its own, created (and panicking) when
\* the loop comes to it.
FlatExportedStructFieldsIterLoop(v, path, i, acc) ==
  IF i > Len(v.fields) \/ acc.stopped \/ acc.panicked THEN acc
  ELSE LET f == v.fields[i]
           src == path \o <<i>>
       IN FlatExportedStructFieldsIterLoop(v, path, i + 1,
            IF f.anonymous THEN FlatExportedStructFieldsIter(f.val, src, acc)
            ELSE IF f.exported THEN Yield(acc, Entry(src, f, f.name))
            ELSE acc)

\* FlatExportedStructFieldsIter(s any), ranged over by a consumer in the
\* state acc: the check of the kind is made when the iterator is created.
FlatExportedStructFieldsIter(val, path, acc) ==
  LET d == DerefValueAndType(val)
  IN IF d.v.kind # "struct" THEN [acc EXCEPT !.panicked = TRUE]
     ELSE FlatExportedStructFieldsIterLoop(d.v, path, 1, acc)

(***************************************************************************)
(* Zero-value detection                                                    *)
(***************************************************************************)

\* One reported name: the field it comes from (src), the element index
\* (idx, -1 for the field itself) and the name.
Named(src, idx, name) == [src |-> src, idx |-> idx, name |-> name]

RECURSIVE ZeroElemsUpToFirst(_, _, _, _)
\* The element loop leaving at the first zero element.
ZeroElemsUpToFirst(elems, fieldName, src, j) ==
  IF j >= Len(elems) THEN <<>>
  ELSE IF IsZero(elems[j + 1])
    THEN <<Named(src, j, IndexedName(fieldName, j))>>
  ELSE ZeroElemsUpToFirst(elems, fieldName, src, j + 1)

RECURSIVE ZeroElems(_, _, _, _)
\* for j := 0; j < fieldVal.Len(); j++ { if IsZero(fieldVal.Index(j)...) }
\* from element j (0-based) on.
ZeroElems(elems, fieldName, src, j) ==
  IF j >= Len(elems) THEN <<>>
  ELSE (IF IsZero(elems[j + 1])
          THEN <<Named(src, j, IndexedName(fieldName, j))>> ELSE <<>>)
       \o ZeroElems(elems, fieldName, src, j + 1)

RECURSIVE ZeroValueExportedStructFieldNames(_, _, _, _, _)
RECURSIVE ZeroValueExportedStructFieldNamesLoop(_, _, _, _, _, _, _)

\* ZeroValueExportedStructFieldNames, the switch on the field's kind and
\* the generic check after it, for a field that is processed.
ZeroValueOfField(fieldVal, canAddr, fieldName, tagKey, names, src) ==
  LET self == Ok(<<Named(src, -1, fieldName)>>)
      generic == IF IsZero(fieldVal) THEN self ELSE Ok(<<>>)
  IN CASE fieldVal.kind = "ptr" ->
            IF fieldVal.isNil THEN self
            ELSE IF fieldVal.elem.kind = "struct"
              THEN ZeroValueExportedStructFieldNames(
                     fieldVal, fieldName \o <<".">>, tagKey, names, src)
            ELSE generic
       [] fieldVal.kind = "struct" ->
            ZeroValueExportedStructFieldNames(
              IF canAddr THEN PtrV(FALSE, fieldVal) ELSE fieldVal,
              fieldName \o <<".">>, tagKey, names, src)
       [] fieldVal.kind \in {"slice", "array"} ->
            IF fieldVal.kind = "slice" /\ fieldVal.isNil THEN self
            ELSE Ok(ZeroElems(fieldVal.elems, fieldName, src, 0))
       [] fieldVal.kind = "map" ->
            IF fieldVal.isNil THEN self ELSE Panic
       [] OTHER -> generic

\* The loop body of ZeroValueExportedStructFieldNames applying the generic
\* zero check to a struct field as well, after its sub-fields.
ZeroValueExportedStructFieldGenericToo(f, canAddr, prefix, tagKey, names, src) ==
  IF ~f.exported THEN Ok(<<>>)
  ELSE LET fieldName == getFieldName(f, prefix, tagKey).name
       IN IF ignoreField(names, fieldName) THEN Ok(<<>>)
          ELSE Then(ZeroValueOfField(f.val, canAddr, fieldName, tagKey, names, src),
                    IF f.val.kind = "struct" /\ IsZero(f.val)
                      THEN Ok(<<Named(src, -1, fieldName)>>) ELSE Ok(<<>>))

\* The loop body of ZeroValueExportedStructFieldNames recovering from the
\* panic of a field and reporting nothing for it.
ZeroValueExportedStructFieldRecover(f, canAddr, prefix, tagKey, names, src) ==
  IF ~f.exported THEN Ok(<<>>)
  ELSE LET fieldName == getFieldName(f, prefix, tagKey).name
           r == ZeroValueOfField(f.val, canAddr, fieldName, tagKey, names, src)
       IN IF ignoreField(names, fieldName) \/ r.panicked THEN Ok(<<>>) ELSE r

\* ZeroValueExportedStructFieldNames, loop body.
ZeroValueExportedStructField(f, canAddr, prefix, tagKey, names, src) ==
  IF ~f.exported THEN Ok(<<>>)
  ELSE LET fieldName == getFieldName(f, prefix, tagKey).name
       IN IF ignoreField(names, fieldName) THEN Ok(<<>>)
          ELSE ZeroValueOfField(f.val, canAddr, fieldName, tagKey, names, src)

ZeroValueExportedStructFieldNamesLoop(v, canAddr, prefix, tagKey, names, path, i) ==
  IF i > Len(v.fields) THEN Ok(<<>>)
  ELSE Then(ZeroValueExportedStructField(
              v.fields[i], canAddr, prefix, tagKey, names, path \o <<i>>),
            ZeroValueExportedStructFieldNamesLoop(
              v, canAddr, prefix, tagKey, names, path, i + 1))

\* ZeroValueExportedStructFieldNames(st, namePrefix, nameTag, namesToValidate...)
ZeroValueExportedStructFieldNames(val, prefix, tagKey, names, path) ==
  LET d == DerefValueAndType(val)
  IN IF d.v.kind # "struct" THEN Panic
     ELSE ZeroValueExportedStructFieldNamesLoop(
            d.v, d.canAddr, prefix, tagKey, names, path, 1)

(***************************************************************************)
(* Field validation                                                        *)
(***************************************************************************)

\* A nil error.
NoError == "nil"

\* The validateFunc callbacks a caller passes, by name. Each type-switches
\* on the dynamic type of its argument:
\*   acceptAll   returns nil for every argument;
\*   rejectAll   returns an error for every argument;
\*   valueRules  the README's validateField: an error for an empty string
\*               and for a negative int, nil for any other type;
\*   pointerRules an error for a non-nil *int or *string pointing to a
\*               negative int or an empty string, nil for any other type.
ValidateFuncs == {"acceptAll", "rejectAll", "valueRules", "pointerRules"}

\* valueRules on one argument.
ValueRules(arg) ==
  CASE arg.kind = "string" /\ arg.s = <<>> -> "cannot be empty"
    [] arg.kind = "int" /\ arg.n < 0 -> "must be positive"
    [] OTHER -> NoError

\* validateFunc(arg): the error it returns, NoError for nil.
CallValidateFunc(vf, arg) ==
  CASE vf = "acceptAll" -> NoError
    [] vf = "rejectAll" -> "rejected"
    [] vf = "valueRules" -> ValueRules(arg)
    [] vf = "pointerRules" ->
         IF arg.kind = "ptr" /\ ~arg.isNil
              /\ arg.elem.kind \in {"int", "string"}
              /\ ValueRules(arg.elem) # NoError
           THEN "invalid pointee" ELSE NoError

\* One recorded invocation of validateFunc: for which field (src), which
\* element (idx, -1 for the field itself), at which step of the chain,
\* with which argument, and the error returned.
Call(vf, src, idx, step, arg) ==
  [src |-> src, idx |-> idx, step |-> step, arg |-> arg,
   err |-> CallValidateFunc(vf, arg)]

\* validate running every step that applies, also after an error, and
\* returning the first error.
validateEveryStep(vf, v, canAddr, src, idx) ==
  LET c1 == Call(vf, src, idx, "value", v)
      c2 == Call(vf, src, idx, "addr", PtrV(FALSE, v))
      c3 == Call(vf, src, idx, "elem", v.elem)
      calls == <<c1>> \o (IF canAddr THEN <<c2>> ELSE <<>>)
                 \o (IF canAddr /\ v.kind = "ptr" /\ ~v.isNil THEN <<c3>> ELSE <<>>)
      failed == SelectSeq(calls, LAMBDA c : c.err # NoError)
  IN [err |-> IF Len(failed) > 0 THEN failed[1].err ELSE NoError,
      calls |-> calls]

\* validate(validateFunc, v): the error and the invocations made.
validate(vf, v, canAddr, src, idx) ==
  LET c1 == Call(vf, src, idx, "value", v)
      c2 == Call(vf, src, idx, "addr", PtrV(FALSE, v))
      c3 == Call(vf, src, idx, "elem", v.elem)
  IN IF c1.err # NoError THEN [err |-> c1.err, calls |-> <<c1>>]
     ELSE IF ~canAddr THEN [err |-> NoError, calls |-> <<c1>>]
     ELSE IF c2.err # NoError THEN [err |-> c2.err, calls |-> <<c1, c2>>]
     ELSE IF v.kind = "ptr" /\ ~v.isNil
       THEN [err |-> c3.err, calls |-> <<c1, c2, c3>>]
     ELSE [err |-> NoError, calls |-> <<c1, c2>>]

\* One FieldError{FieldName, FieldError}, with the field it is about.
FieldError(src, idx, name, err) ==
  [src |-> src, idx |-> idx, name |-> name, err |-> err]

\* err := validate(...); if err != nil { fieldErrors = append(...) }
Validated(vf, v, canAddr, src, idx, name) ==
  LET r == validate(vf, v, canAddr, src, idx)
  IN [panicked |-> FALSE,
      out |-> IF r.err # NoError
                THEN <<FieldError(src, idx, name, r.err)>> ELSE <<>>,
      calls |-> r.calls]

RECURSIVE ValidateElems(_, _, _, _, _, _)
\* for j := 0; j < fieldVal.Len(); j++ { validate(fieldVal.Index(j)) }
\* from element j (0-based) on.
ValidateElems(vf, elems, elemCanAddr, fieldName, src, j) ==
  IF j >= Len(elems) THEN Ok(<<>>)
  ELSE Then(Validated(vf, elems[j + 1], elemCanAddr, src, j,
                      IndexedName(fieldName, j)),
            ValidateElems(vf, elems, elemCanAddr, fieldName, src, j + 1))

RECURSIVE ValidateStructFields(_, _, _, _, _, _)
RECURSIVE ValidateStructFieldsLoop(_, _, _, _, _, _, _, _)

\* The switch of ValidateStructFields descending into the struct behind a
\* non-nil pointer as well.
ValidateDescendThroughPointer(vf, fieldVal, canAddr, fieldName, tagKey, names, src) ==
  CASE fieldVal.kind = "struct"
         \/ (fieldVal.kind = "ptr" /\ ~fieldVal.isNil
               /\ fieldVal.elem.kind = "struct") ->
         ValidateStructFields(
           vf, IF canAddr /\ fieldVal.kind = "struct"
                 THEN PtrV(FALSE, fieldVal) ELSE fieldVal,
           fieldName \o <<".">>, tagKey, names, src)
    [] fieldVal.kind = "slice" ->
         ValidateElems(vf, fieldVal.elems, TRUE, fieldName, src, 0)
    [] fieldVal.kind = "array" ->
         ValidateElems(vf, fieldVal.elems, canAddr, fieldName, src, 0)
    [] fieldVal.kind = "map" -> Panic
    [] OTHER -> Ok(<<>>)

\* The switch of ValidateStructFields panicking for a non-nil map only.
ValidateDescendNilMapAllowed(vf, fieldVal, canAddr, fieldName, tagKey, names, src) ==
  CASE fieldVal.kind = "struct" ->
         ValidateStructFields(
           vf, IF canAddr THEN PtrV(FALSE, fieldVal) ELSE fieldVal,
           fieldName \o <<".">>, tagKey, names, src)
    [] fieldVal.kind = "slice" ->
         ValidateElems(vf, fieldVal.elems, TRUE, fieldName, src, 0)
    [] fieldVal.kind = "array" ->
         ValidateElems(vf, fieldVal.elems, canAddr, fieldName, src, 0)
    [] fieldVal.kind = "map" -> IF fieldVal.isNil THEN Ok(<<>>) ELSE Panic
    [] OTHER -> Ok(<<>>)

\* ValidateStructFields, the switch on the field's kind. An element of a
\* slice is always addressable, an element of an array when the array is.
ValidateDescend(vf, fieldVal, canAddr, fieldName, tagKey, names, src) ==
  CASE fieldVal.kind = "struct" ->
         ValidateStructFields(
           vf, IF canAddr THEN PtrV(FALSE, fieldVal) ELSE fieldVal,
           fieldName \o <<".">>, tagKey, names, src)
    [] fieldVal.kind = "slice" ->
         ValidateElems(vf, fieldVal.elems, TRUE, fieldName, src, 0)
    [] fieldVal.kind = "array" ->
         ValidateElems(vf, fieldVal.elems, canAddr, fieldName, src, 0)
    [] fieldVal.kind = "map" -> Panic
    [] OTHER -> Ok(<<>>)

\* The loop body of ValidateStructFields descending into the field only
\* when the field itself has no error.
ValidateStructFieldDescendIfValid(vf, f, canAddr, prefix, tagKey, names, src) ==
  IF ~f.exported THEN Ok(<<>>)
  ELSE LET fieldName == getFieldName(f, prefix, tagKey).name
           own == Validated(vf, f.val, canAddr, src, -1, fieldName)
       IN IF ignoreField(names, fieldName) THEN Ok(<<>>)
          ELSE IF Len(own.out) > 0 THEN own
          ELSE Then(own, ValidateDescend(vf, f.val, canAddr, fieldName, tagKey,
                                         names, src))

\* ValidateStructFields, loop body.
ValidateStructField(vf, f, canAddr, prefix, tagKey, names, src) ==
  IF ~f.exported THEN Ok(<<>>)
  ELSE LET fieldName == getFieldName(f, prefix, tagKey).name
       IN IF ignoreField(names, fieldName) THEN Ok(<<>>)
          ELSE Then(Validated(vf, f.val, canAddr, src, -1, fieldName),
                    ValidateDescend(vf, f.val, canAddr, fieldName, tagKey,
                                    names, src))

RECURSIVE ValidateStructFieldsLoopFailFast(_, _, _, _, _, _, _, _)
\* The loop of ValidateStructFields returning at the first FieldError.
ValidateStructFieldsLoopFailFast(vf, v, canAddr, prefix, tagKey, names, path, i) ==
  IF i > Len(v.fields) THEN Ok(<<>>)
  ELSE LET r == ValidateStructField(
                  vf, v.fields[i], canAddr, prefix, tagKey, names, path \o <<i>>)
       IN IF r.panicked \/ Len(r.out) > 0 THEN r
          ELSE Then(r, ValidateStructFieldsLoopFailFast(
                         vf, v, canAddr, prefix, tagKey, names, path, i + 1))

ValidateStructFieldsLoop(vf, v, canAddr, prefix, tagKey, names, path, i) ==
  IF i > Len(v.fields) THEN Ok(<<>>)
  ELSE Then(ValidateStructField(
              vf, v.fields[i], canAddr, prefix, tagKey, names, path \o <<i>>),
            ValidateStructFieldsLoop(
              vf, v, canAddr, prefix, tagKey, names, path, i + 1))

\* ValidateStructFields(validateFunc, st, namePrefix, nameTag, namesToValidate...)
ValidateStructFields(vf, val, prefix, tagKey, names, path) ==
  LET d == DerefValueAndType(val)
  IN IF d.v.kind # "struct" THEN Panic
     ELSE ValidateStructFieldsLoop(
            vf, d.v, d.canAddr, prefix, tagKey, names, path, 1)

(***************************************************************************)
(* The struct values the operations are called with                        *)
(***************************************************************************)

\* The most fields a top-level struct declares.
MaxFields == 2

\* Field names by position: of the top-level struct, of a struct nested
\* in it, of a struct nested in that. An unexported field has the
\* lower-case name.
UpperNames == <<<<"A", "B", "C", "D", "F">>, <<"X", "Y", "Z">>, <<"M", "N">>>>
LowerNames == <<<<"a", "b", "c", "d", "f">>, <<"x", "y", "z">>, <<"m", "n">>>>

\* A field declaration without its name, and the value stored in it.
T(exported, anonymous, tag, val) ==
  [exported |-> exported, anonymous |-> anonymous, tag |-> tag, val |-> val]

\* The struct declaring the fields tpls in this order, at nesting level.
MkStruct(tpls, level) ==
  StructV([i \in 1..Len(tpls) |->
    [name |-> IF tpls[i].exported THEN <<UpperNames[level][i]>>
                                  ELSE <<LowerNames[level][i]>>,
     exported |-> tpls[i].exported,
     anonymous |-> tpls[i].anonymous,
     tag |-> tpls[i].tag,
     val |-> tpls[i].val]])

\* Tag values written under TagKey.
TagVals ==
  { <<"n">>, <<"n", ",", "o">>, <<",", "o">>, <<>>, <<"-">>,
    <<"-", ",", "o">>, <<"a", "-", "b">> }

\* Structs nested two levels down.
Inner2 == MkStruct(<<T(TRUE, FALSE, NoTag, IntV(0))>>, 3)

\* Structs nested one level down: as values of struct fields, as pointees
\* and as embedded structs.
InnerZero == MkStruct(<<T(TRUE, FALSE, NoTag, IntV(0))>>, 2)
InnerMixed ==
  MkStruct(<<T(TRUE, FALSE, Tag(<<"n", ",", "o">>), IntV(-1)),
             T(FALSE, FALSE, NoTag, IntV(0)),
             T(TRUE, FALSE, NoTag, PtrV(FALSE, IntV(-1)))>>, 2)
InnerEmbedding ==
  MkStruct(<<T(FALSE, TRUE, NoTag, Inner2),
             T(TRUE, FALSE, NoTag, IntV(-1))>>, 2)
InnerUnexported == MkStruct(<<T(FALSE, FALSE, NoTag, IntV(0))>>, 2)
InnerMap ==
  MkStruct(<<T(TRUE, FALSE, NoTag, IntV(0)),
             T(TRUE, FALSE, NoTag, MapV(FALSE))>>, 2)
InnerStructs ==
  {InnerZero, InnerMixed, InnerEmbedding, InnerUnexported, InnerMap}

\* Plain fields: exported, untagged ints.
Filler == { T(TRUE, FALSE, NoTag, IntV(n)) : n \in {-1, 0} }

ScalarFields ==
  { T(TRUE, FALSE, Tag(t), IntV(0)) : t \in TagVals }
    \cup { T(TRUE, FALSE, Tag(t), IntV(-1)) : t \in {<<"-">>, <<"n">>} }
    \cup { T(TRUE, FALSE, NoTag, IntV(1)),
           T(FALSE, FALSE, NoTag, IntV(0)),
           T(FALSE, FALSE, Tag(<<"n">>), IntV(-1)),
           T(TRUE, FALSE, NoTag, StrV(<<>>)),
           T(TRUE, FALSE, NoTag, StrV(<<"x">>)) }

PointerFields ==
  { T(TRUE, FALSE, NoTag, PtrV(TRUE, IntV(0))),
    T(TRUE, FALSE, NoTag, PtrV(FALSE, IntV(0))),
    T(TRUE, FALSE, NoTag, PtrV(FALSE, IntV(-1))),
    T(TRUE, FALSE, NoTag, PtrV(FALSE, PtrV(FALSE, IntV(0)))) }

CollectionFields ==
  { T(TRUE, FALSE, NoTag, SliceV(TRUE, <<>>)),
    T(TRUE, FALSE, NoTag, SliceV(FALSE, <<>>)),
    T(TRUE, FALSE, Tag(<<"n", ",", "o">>),
      SliceV(FALSE, <<IntV(1), IntV(0), IntV(-1), IntV(0)>>)),
    T(TRUE, FALSE, NoTag,
      SliceV(FALSE, <<PtrV(FALSE, IntV(-1)), PtrV(TRUE, IntV(0))>>)),
    T(TRUE, FALSE, NoTag, ArrayV(<<IntV(0), IntV(-1)>>)),
    T(TRUE, FALSE, NoTag, ArrayV(<<PtrV(FALSE, IntV(-1))>>)),
    T(TRUE, FALSE, NoTag, ArrayV(<<IntV(0), IntV(0)>>)),
    T(TRUE, FALSE, NoTag, SliceV(FALSE, <<InnerMixed>>)),
    T(TRUE, FALSE, NoTag, MapV(TRUE)),
    T(TRUE, FALSE, NoTag, MapV(FALSE)),
    T(FALSE, FALSE, NoTag, MapV(FALSE)),
    T(TRUE, FALSE, Tag(<<"-">>), MapV(FALSE)) }

StructFields ==
  { T(TRUE, FALSE, NoTag, s) : s \in InnerStructs }
    \cup { T(TRUE, FALSE, Tag(<<"n">>), InnerMixed),
           T(TRUE, FALSE, NoTag, PtrV(TRUE, InnerZero)),
           T(TRUE, FALSE, NoTag, PtrV(FALSE, InnerZero)),
           T(TRUE, FALSE, NoTag, PtrV(FALSE, InnerMixed)),
           T(TRUE, FALSE, NoTag, PtrV(FALSE, InnerMap)),
           T(FALSE, FALSE, NoTag, InnerMap) }

EmbeddedFields ==
  { T(TRUE, TRUE, NoTag, s) : s \in InnerStructs }
    \cup { T(FALSE, TRUE, NoTag, InnerMixed),
           T(TRUE, TRUE, Tag(<<"n">>), InnerZero),
           T(TRUE, TRUE, NoTag, PtrV(TRUE, InnerZero)),
           T(TRUE, TRUE, NoTag, PtrV(FALSE, InnerMixed)) }

Pool ==
  Filler \cup ScalarFields \cup PointerFields \cup CollectionFields
    \cup StructFields \cup EmbeddedFields

\* The top-level structs: up to MaxFields fields in any order, at most one
\* of them other than a plain field.
Structs ==
  UNION { { MkStruct([i \in 1..n |-> IF i = k THEN p ELSE fill[i]], 1) :
              k \in 1..n, p \in Pool, fill \in [1..n -> Filler] } :
          n \in 1..MaxFields }

\* Arguments that are no struct after dereferencing, a nil pointer to a
\* struct among them, and a struct behind two pointers.
NonStructs ==
  { IntV(0), StrV(<<"x">>), PtrV(FALSE, IntV(0)), PtrV(TRUE, IntV(0)),
    SliceV(FALSE, <<InnerZero>>), MapV(FALSE), PtrV(TRUE, InnerMixed),
    PtrV(FALSE, PtrV(TRUE, InnerMixed)) }
DoublePointers == { PtrV(FALSE, PtrV(FALSE, InnerMixed)) }

\* Values of the other kinds, nil and not, and the value behind two
\* pointers.
OtherValues ==
  { InvalidV, ChanV(TRUE), ChanV(FALSE), FuncV(TRUE), FuncV(FALSE),
    InterfaceV(TRUE), InterfaceV(FALSE), UnsafePointerV(TRUE),
    UnsafePointerV(FALSE), MapV(TRUE), SliceV(TRUE, <<>>),
    SliceV(FALSE, <<>>), SliceV(FALSE, <<IntV(0)>>), IntV(1), StrV(<<>>),
    ArrayV(<<IntV(0)>>), PtrV(FALSE, IntV(1)), PtrV(FALSE, StrV(<<>>)),
    PtrV(FALSE, PtrV(FALSE, IntV(0))), PtrV(FALSE, PtrV(TRUE, IntV(0))),
    PtrV(FALSE, SliceV(TRUE, <<>>)), PtrV(FALSE, InnerZero) }

\* The arguments: a struct passed by value or by pointer, and the others.
Arguments ==
  Structs \cup { PtrV(FALSE, s) : s \in Structs } \cup NonStructs
    \cup DoublePointers \cup OtherValues

\* The most yields a consumer accepts before it breaks out of the loop.
MaxYields == 2

\* The consumers of an iterator: -1 ranges to the end, n breaks in the
\* n-th iteration.
Consumers == {-1} \cup 1..MaxYields

NameTags == {"", TagKey}
NamePrefixes == {<<>>, <<"p", ".">>, <<"p", "-">>}
\* The allow-lists tried with a prefix: none, the first field's declared
\* name, that with a field nested in it, and the nested field's alone.
NameLists(prefix) ==
  { <<>>, <<prefix \o <<"A">>>>,
    <<prefix \o <<"A">>, prefix \o <<"A", ".", "X">>>>,
    <<prefix \o <<"A", ".", "X">>>> }

\* The allow-lists naming one top-level field of the argument by the name
\* getFieldName resolves for it.
ResolvedNameLists(val, prefix, tagKey) ==
  IF DerefValue(val).kind # "struct" THEN {}
  ELSE { <<getFieldName(DerefValue(val).fields[i], prefix, tagKey).name>> :
           i \in 1..Len(DerefValue(val).fields) }

\* No dereferencing loop is being stepped through.
NoLoop == [fn |-> "none"]

(***************************************************************************)
(* The state machine: a caller holding one argument calls the operations.  *)
(***************************************************************************)

Init ==
  /\ st \in Arguments
  /\ nameTag = ""
  /\ namePrefix = <<>>
  /\ namesToValidate = <<>>
  /\ validateFunc = "acceptAll"
  /\ consumer = -1
  /\ op = "none"
  /\ res = Ok(<<>>)
  /\ loop = NoLoop

\* One call: the package keeps no state between calls, so a behaviour is
\* one call of one operation on the argument. The arguments an operation
\* does not take are left at their defaults.
Passing(tagKey, prefix, names, vf) ==
  /\ nameTag' = tagKey
  /\ namePrefix' = prefix
  /\ namesToValidate' = names
  /\ validateFunc' = vf
  /\ UNCHANGED <<st, consumer, loop>>

CallFlatStructFieldNames ==
  /\ op = "none"
  /\ op' = "FlatStructFieldNames"
  /\ res' = FlatStructFieldNames(st, <<>>)
  /\ Passing("", <<>>, <<>>, "acceptAll")

CallFlatExportedStructFields ==
  /\ op = "none"
  /\ op' = "FlatExportedStructFields"
  /\ res' = FlatExportedStructFields(st, <<>>)
  /\ Passing("", <<>>, <<>>, "acceptAll")

CallFlatExportedStructFieldValueNames ==
  /\ op = "none"
  /\ op' = "FlatExportedStructFieldValueNames"
  /\ \E k \in NameTags :
       /\ res' = FlatExportedStructFieldValueNames(st, k, <<>>)
       /\ Passing(k, <<>>, <<>>, "acceptAll")

CallFlatExportedStructFieldValueNameMap ==
  /\ op = "none"
  /\ op' = "FlatExportedStructFieldValueNameMap"
  /\ \E k \in NameTags :
       /\ res' = FlatExportedStructFieldValueNameMap(st, k)
       /\ Passing(k, <<>>, <<>>, "acceptAll")

CallFlatExportedNamedStructFields ==
  /\ op = "none"
  /\ op' = "FlatExportedNamedStructFields"
  /\ \E k \in NameTags :
       /\ res' = FlatExportedNamedStructFields(st, k, <<>>)
       /\ Passing(k, <<>>, <<>>, "acceptAll")

CallZeroValueExportedStructFieldNames ==
  /\ op = "none"
  /\ op' = "ZeroValueExportedStructFieldNames"
  /\ \E k \in NameTags, p \in NamePrefixes :
       \E names \in NameLists(p) \cup ResolvedNameLists(st, p, k) :
         /\ res' = ZeroValueExportedStructFieldNames(st, p, k, names, <<>>)
         /\ Passing(k, p, names, "acceptAll")

CallValidateStructFields ==
  /\ op = "none"
  /\ op' = "ValidateStructFields"
  /\ \E k \in NameTags, p \in NamePrefixes, vf \in ValidateFuncs :
       \E names \in NameLists(p) \cup ResolvedNameLists(st, p, k) :
         /\ res' = ValidateStructFields(vf, st, p, k, names, <<>>)
         /\ Passing(k, p, names, vf)

CallFlatStructFieldCount ==
  /\ op = "none"
  /\ op' = "FlatStructFieldCount"
  /\ res' = FlatStructFieldCount(st)
  /\ Passing("", <<>>, <<>>, "acceptAll")

CallFlatStructFieldTags ==
  /\ op = "none"
  /\ op' = "FlatStructFieldTags"
  /\ \E k \in NameTags :
       /\ res' = FlatStructFieldTags(st, k, <<>>)
       /\ Passing(k, <<>>, <<>>, "acceptAll")

CallFlatStructFieldTagsOrNames ==
  /\ op = "none"
  /\ op' = "FlatStructFieldTagsOrNames"
  /\ \E k \in NameTags :
       /\ res' = FlatStructFieldTagsOrNames(st, k, <<>>)
       /\ Passing(k, <<>>, <<>>, "acceptAll")

CallFlatStructFieldValues ==
  /\ op = "none"
  /\ op' = "FlatStructFieldValues"
  /\ res' = FlatStructFieldValues(st, <<>>)
  /\ Passing("", <<>>, <<>>, "acceptAll")

CallEnumFlatExportedStructFields ==
  /\ op = "none"
  /\ op' = "EnumFlatExportedStructFields"
  /\ res' = EnumFlatExportedStructFields(st, <<>>)
  /\ Passing("", <<>>, <<>>, "acceptAll")

\* for field, value := range FlatExportedStructFieldsIter(st) { ... }
CallFlatExportedStructFieldsIter ==
  /\ op = "none"
  /\ op' = "FlatExportedStructFieldsIter"
  /\ \E c \in Consumers :
       /\ res' = FlatExportedStructFieldsIter(st, <<>>, Consuming(c))
       /\ consumer' = c
  /\ nameTag' = ""
  /\ namePrefix' = <<>>
  /\ namesToValidate' = <<>>
  /\ validateFunc' = "acceptAll"
  /\ UNCHANGED <<st, loop>>

CallIsNil ==
  /\ op = "none"
  /\ op' = "IsNil"
  /\ res' = IsNil(st)
  /\ Passing("", <<>>, <<>>, "acceptAll")

\* IsZero(v any): an `any` never holds a value of interface kind.
CallIsZero ==
  /\ op = "none"
  /\ st.kind # "interface"
  /\ op' = "IsZero"
  /\ res' = Ok(IsZero(st))
  /\ Passing("", <<>>, <<>>, "acceptAll")

CallDerefValue ==
  /\ op = "none"
  /\ op' = "DerefValue"
  /\ res' = Ok(DerefValue(st))
  /\ Passing("", <<>>, <<>>, "acceptAll")

\* DerefType(reflect.TypeOf(st)): the type of a nil `any` is the nil
\* reflect.Type, whose Kind method cannot be called.
CallDerefType ==
  /\ op = "none"
  /\ op' = "DerefType"
  /\ res' = IF IsValid(st) THEN Ok(DerefType(st)) ELSE Panic
  /\ Passing("", <<>>, <<>>, "acceptAll")

CallDerefValueAndType ==
  /\ op = "none"
  /\ op' = "DerefValueAndType"
  /\ res' = IF DerefValueAndType(st).panicked THEN Panic
            ELSE Ok(DerefValueAndType(st))
  /\ Passing("", <<>>, <<>>, "acceptAll")

Next ==
  \/ CallIsNil
  \/ CallIsZero
  \/ CallDerefValue
  \/ CallDerefType
  \/ CallDerefValueAndType
  \/ CallFlatStructFieldCount
  \/ CallFlatStructFieldTags
  \/ CallFlatStructFieldTagsOrNames
  \/ CallFlatStructFieldValues
  \/ CallEnumFlatExportedStructFields
  \/ CallFlatExportedStructFieldsIter
  \/ CallFlatStructFieldNames
  \/ CallFlatExportedStructFields
  \/ CallFlatExportedStructFieldValueNames
  \/ CallFlatExportedStructFieldValueNameMap
  \/ CallFlatExportedNamedStructFields
  \/ CallZeroValueExportedStructFieldNames
  \/ CallValidateStructFields

Spec == Init /\ [][Next]_vars

(***************************************************************************)
(* The dereferencing loops, one iteration at a time. Pointers are cells of *)
(* a heap here, so that a pointer can point to a cell that points back     *)
(* (type P *P; var p P; p = &p), and a type is a pointer depth over int or *)
(* the recursive type P, whose element type is P itself.                   *)
(***************************************************************************)

\* The most cells of a heap, and the deepest pointer type *...*int.
MaxCells == 3

\* A value met while dereferencing: an int, a nil pointer, or a pointer to
\* the cell at an address.
Cells ==
  { [kind |-> "int"], [kind |-> "ptr", isNil |-> TRUE, addr |-> 0] }
    \cup { [kind |-> "ptr", isNil |-> FALSE, addr |-> a] : a \in 1..MaxCells }

\* The types: int behind depth pointers, and P.
Types ==
  { [kind |-> IF d = 0 THEN "int" ELSE "ptr", rec |-> FALSE, depth |-> d] :
      d \in 0..MaxCells }
    \cup { [kind |-> "ptr", rec |-> TRUE, depth |-> 0] }

\* reflect.Type.Elem of a pointer type.
TypeElem(t) ==
  IF t.rec THEN t
  ELSE [kind |-> IF t.depth = 1 THEN "int" ELSE "ptr", rec |-> FALSE,
        depth |-> t.depth - 1]

\* The loops to step through: a function, its argument and what it points
\* into; odd tells whether the iterations made so far are odd in number.
DerefLoops ==
  { [fn |-> f, heap |-> h, v |-> c, odd |-> FALSE, done |-> FALSE] :
      f \in {"DerefValue", "DerefValueAndType"},
      h \in [1..MaxCells -> Cells], c \in Cells }
    \cup { [fn |-> "DerefType", t |-> t, odd |-> FALSE, done |-> FALSE] : t \in Types }

InitDeref ==
  /\ st = InvalidV
  /\ nameTag = ""
  /\ namePrefix = <<>>
  /\ namesToValidate = <<>>
  /\ validateFunc = "acceptAll"
  /\ consumer = -1
  /\ op = "none"
  /\ res = Ok(<<>>)
  /\ loop \in DerefLoops

\* for v.Kind() == reflect.Ptr && !v.IsNil() { v = v.Elem() }: one
\* iteration.
DerefValueStep ==
  /\ loop.fn \in {"DerefValue", "DerefValueAndType"}
  /\ ~loop.done
  /\ loop.v.kind = "ptr" /\ ~loop.v.isNil
  /\ loop' = [loop EXCEPT !.v = loop.heap[loop.v.addr], !.odd = ~loop.odd]
  /\ UNCHANGED <<st, nameTag, namePrefix, namesToValidate, validateFunc,
                 consumer, op, res>>

\* The loop condition is false: return v.
DerefValueReturn ==
  /\ loop.fn \in {"DerefValue", "DerefValueAndType"}
  /\ ~loop.done
  /\ ~(loop.v.kind = "ptr" /\ ~loop.v.isNil)
  /\ loop' = [loop EXCEPT !.done = TRUE]
  /\ UNCHANGED <<st, nameTag, namePrefix, namesToValidate, validateFunc,
                 consumer, op, res>>

\* for t.Kind() == reflect.Ptr { t = t.Elem() }: one iteration.
DerefTypeStep ==
  /\ loop.fn = "DerefType"
  /\ ~loop.done
  /\ loop.t.kind = "ptr"
  /\ loop' = [loop EXCEPT !.t = TypeElem(loop.t), !.odd = ~loop.odd]
  /\ UNCHANGED <<st, nameTag, namePrefix, namesToValidate, validateFunc,
                 consumer, op, res>>

\* The loop condition is false: return t.
DerefTypeReturn ==
  /\ loop.fn = "DerefType"
  /\ ~loop.done
  /\ loop.t.kind # "ptr"
  /\ loop' = [loop EXCEPT !.done = TRUE]
  /\ UNCHANGED <<st, nameTag, namePrefix, namesToValidate, validateFunc,
                 consumer, op, res>>

NextDeref ==
  \/ DerefValueStep
  \/ DerefValueReturn
  \/ DerefTypeStep
  \/ DerefTypeReturn

\* A loop that can make an iteration or return does so.
SpecDeref == InitDeref /\ [][NextDeref]_vars /\ WF_vars(NextDeref)

(***************************************************************************)
(* Definitions the properties are stated with                              *)
(***************************************************************************)

RECURSIVE FieldPaths(_)
\* The index paths of all fields declared in t and in the structs nested
\* in it (as field values, pointees or embedded structs).
FieldPaths(t) ==
  LET s == DerefType(t)
  IN IF s.kind # "struct" THEN {}
     ELSE UNION { {<<i>>} \cup { <<i>> \o q : q \in FieldPaths(s.fields[i].val) } :
                  i \in 1..Len(s.fields) }

RECURSIVE FieldAt(_, _)
\* The field declaration at index path p of t.
FieldAt(t, p) ==
  LET s == DerefType(t)
  IN IF Len(p) = 1 THEN s.fields[p[1]]
     ELSE FieldAt(s.fields[p[1]].val, Tail(p))

\* The flattened fields of t: the fields that are not anonymous and are
\* declared in t or in a struct embedded (at any depth) in t.
FlatPaths(t) ==
  { p \in FieldPaths(t) :
      /\ ~FieldAt(t, p).anonymous
      /\ \A k \in 1..(Len(p) - 1) : FieldAt(t, SubSeq(p, 1, k)).anonymous }

\* Declaration order of two flattened fields: an embedded struct's fields
\* stand at the embedded field's position.
DeclaredBefore(p, q) ==
  \E k \in 1..Len(p) :
    /\ k <= Len(q)
    /\ p[k] < q[k]
    /\ \A j \in 1..(k - 1) : p[j] = q[j]

\* The tag of field f under the key has "-" before its first comma.
TaggedIgnore(f, tagKey) ==
  TagLookup(f.tag, tagKey).ok /\ BeforeComma(TagLookup(f.tag, tagKey).val) = <<"-">>

FlatOps ==
  { "FlatStructFieldNames", "FlatExportedStructFields",
    "FlatExportedStructFieldValueNames", "FlatExportedNamedStructFields" }

\* Whether a flattening operation is to emit the flattened field f.
FlatOpEmits(f) ==
  CASE op = "FlatStructFieldNames" -> TRUE
    [] op = "FlatExportedStructFields" -> f.exported
    [] OTHER -> f.exported /\ ~TaggedIgnore(f, nameTag)

Returned == op # "none" /\ ~res.panicked

(***************************************************************************)
(* C1: the flattening operations emit entries in declaration order, never  *)
(* an entry for an anonymous field itself, and the flattened entries of an *)
(* embedded struct stand at the embedded field's position: the output of a *)
(* call that returns is exactly the flattened fields the operation keeps,  *)
(* each once, in declaration order, under the field's declared name.       *)
(***************************************************************************)
C1_FlatteningOrder ==
  (op \in FlatOps /\ Returned) =>
    /\ \A i \in 1..Len(res.out) :
         /\ res.out[i].src \in FlatPaths(st)
         /\ ~FieldAt(st, res.out[i].src).anonymous
         /\ res.out[i].field = FieldAt(st, res.out[i].src).name
    /\ \A i, j \in 1..Len(res.out) :
         i < j => DeclaredBefore(res.out[i].src, res.out[j].src)
    /\ \A p \in FlatPaths(st) :
         FlatOpEmits(FieldAt(st, p)) => \E i \in 1..Len(res.out) : res.out[i].src = p

\* An embedded struct {X} followed by a field yields exactly X and that
\* field, in this order.
C1_Witness ==
  /\ op = "FlatExportedStructFields"
  /\ DerefValue(st) = MkStruct(<<T(TRUE, TRUE, NoTag, InnerZero),
                                 T(TRUE, FALSE, NoTag, IntV(0))>>, 1)
  /\ ~res.panicked
  /\ [i \in 1..Len(res.out) |-> res.out[i].field] = <<<<"X">>, <<"B">>>>

\* The operations that resolve a tag-derived name.
FlatNameOps ==
  { "FlatExportedStructFieldValueNames", "FlatExportedStructFieldValueNameMap",
    "FlatExportedNamedStructFields" }
ValidateOps == { "ZeroValueExportedStructFieldNames", "ValidateStructFields" }
NameOps == FlatNameOps \cup ValidateOps

\* The indexes of the entries returned.
Out == 1..Len(res.out)

\* The part of f's tag value under the key before the first comma ("" when
\* f has no such tag).
Candidate(f, tagKey) == BeforeComma(TagGet(f.tag, tagKey))

\* "[idx]" for an element, nothing for the field itself.
IndexSuffix(e) ==
  IF op \in ValidateOps /\ e.idx # -1 THEN <<"[", ToString(e.idx), "]">> ELSE <<>>

\* The prefix the caller passed (the flattening operations take none).
CallPrefix == IF op \in ValidateOps THEN namePrefix ELSE <<>>

\* The entries whose name is the prefix and the field's own resolved name:
\* all of a flattening operation, those of top-level fields otherwise.
TopLevelName(e) == op \in FlatNameOps \/ Len(e.src) = 1

\* The top-level fields of the argument.
TopPaths == { p \in FieldPaths(st) : Len(p) = 1 }

(***************************************************************************)
(* C2: in ZeroValueExportedStructFieldNames and ValidateStructFields the   *)
(* fields of an anonymous embedded struct are reported as if declared at   *)
(* the top level: named namePrefix + own resolved name, with no path       *)
(* segment for the embedded field. (The code does not do this.)            *)
(***************************************************************************)
C2_EmbeddedFlattened ==
  (op \in ValidateOps /\ Returned) =>
    \A i \in Out :
      LET e == res.out[i]
          f == FieldAt(st, e.src)
      IN (e.src \in FlatPaths(st) /\ Len(e.src) >= 2) =>
           e.name = namePrefix
                      \o (IF Candidate(f, nameTag) = <<>> THEN f.name
                          ELSE Candidate(f, nameTag))
                      \o IndexSuffix(e)

\* A field holding a non-nil pointer to a value that is no struct.
PointerToNonStruct(f) ==
  f.val.kind = "ptr" /\ ~f.val.isNil /\ f.val.elem.kind # "struct"

\* The top-level field at p is exported and passes ignoreField.
TopProcessed(p) ==
  /\ FieldAt(st, p).exported
  /\ ~ignoreField(namesToValidate,
                  getFieldName(FieldAt(st, p), namePrefix, nameTag).name)

(***************************************************************************)
(* C3 as claimed: in ZeroValueExportedStructFieldNames a processed field   *)
(* that is a non-nil pointer to a non-struct value is reported if and only *)
(* if its pointee is the zero value of the pointee type.                   *)
(***************************************************************************)
C3_PointeeDecides ==
  (op = "ZeroValueExportedStructFieldNames" /\ Returned) =>
    \A p \in TopPaths :
      (TopProcessed(p) /\ PointerToNonStruct(FieldAt(st, p))) =>
        ((\E i \in Out : res.out[i].src = p) <=> IsZero(FieldAt(st, p).val.elem))

(***************************************************************************)
(* C3 amended: in ZeroValueExportedStructFieldNames a field that is a      *)
(* non-nil pointer to a non-struct value is judged by the generic zero     *)
(* check on the pointer itself, which no non-nil pointer passes: it is     *)
(* never reported, whatever its pointee.                                   *)
(***************************************************************************)
C3_NonNilPointerNotReported ==
  (op = "ZeroValueExportedStructFieldNames" /\ Returned) =>
    \A p \in FieldPaths(st) :
      PointerToNonStruct(FieldAt(st, p)) =>
        ~\E i \in Out : res.out[i].src = p /\ res.out[i].idx = -1

\* B = new(int), pointing to 0, in a processed field, is not reported
\* while a zero int beside it is.
C3_Witness ==
  /\ op = "ZeroValueExportedStructFieldNames"
  /\ Returned
  /\ \E p, q \in TopPaths :
       /\ TopProcessed(p)
       /\ FieldAt(st, p).val = PtrV(FALSE, IntV(0))
       /\ ~\E i \in Out : res.out[i].src = p
       /\ FieldAt(st, q).val = IntV(0)
       /\ \E i \in Out : res.out[i].src = q

(***************************************************************************)
(* C4: in ZeroValueExportedStructFieldNames and ValidateStructFields the   *)
(* ignore rule excludes a field only when its candidate tag name is "-":   *)
(* without an allow-list every exported field with another candidate name  *)
(* is processed (validateFunc is invoked on it; it is reported when it is  *)
(* a zero int). (The code excludes every name containing a hyphen.)        *)
(***************************************************************************)
C4_OnlyLiteralHyphenIgnored ==
  (op \in ValidateOps /\ Returned /\ namesToValidate = <<>>) =>
    \A p \in TopPaths :
      LET f == FieldAt(st, p)
      IN (f.exported /\ Candidate(f, nameTag) # <<"-">>) =>
           IF op = "ValidateStructFields"
             THEN \E i \in 1..Len(res.calls) : res.calls[i].src = p
             ELSE f.val = IntV(0) => \E i \in Out : res.out[i].src = p

(***************************************************************************)
(* C5: an exported field whose tag value under the tag key is "-" (also    *)
(* with options) has no entry in the output of any name-resolving          *)
(* operation, whatever its value, and validateFunc is never invoked on it. *)
(***************************************************************************)
C5_IgnoredFieldAbsent ==
  op \in NameOps =>
    \A p \in FieldPaths(st) :
      (FieldAt(st, p).exported /\ TaggedIgnore(FieldAt(st, p), nameTag)) =>
        /\ \A i \in Out : res.out[i].src # p
        /\ \A i \in 1..Len(res.calls) : res.calls[i].src # p

\* A field tagged "-" holding -1 beside a field that a validateFunc
\* rejecting everything is invoked on, under a prefix.
C5_Witness ==
  /\ op = "ValidateStructFields"
  /\ validateFunc = "rejectAll"
  /\ namePrefix = <<"p", ".">>
  /\ Len(res.out) > 0
  /\ \E p \in TopPaths :
       /\ FieldAt(st, p).exported
       /\ TaggedIgnore(FieldAt(st, p), nameTag)
       /\ FieldAt(st, p).val = IntV(-1)

(***************************************************************************)
(* C6 as claimed: every tag-derived name is the declared field name when   *)
(* the field has no tag under the key and the part of the tag value before *)
(* the first comma when it has one.                                        *)
(***************************************************************************)
C6_NameIsPartBeforeComma ==
  (op \in NameOps /\ Returned) =>
    \A i \in Out :
      LET e == res.out[i]
          f == FieldAt(st, e.src)
      IN TopLevelName(e) =>
           e.name = CallPrefix
                      \o (IF TagLookup(f.tag, nameTag).ok
                            THEN Candidate(f, nameTag) ELSE f.name)
                      \o IndexSuffix(e)

(***************************************************************************)
(* C6 amended: every tag-derived name is the declared field name when the  *)
(* field has no tag under the key, and the part of the tag value before    *)
(* the first comma when the tag is present and that part is not empty; the *)
(* text after the comma never influences the name.                         *)
(***************************************************************************)
C6_NameResolution ==
  (op \in NameOps /\ Returned) =>
    \A i \in Out :
      LET e == res.out[i]
          f == FieldAt(st, e.src)
      IN (TopLevelName(e)
            /\ (TagLookup(f.tag, nameTag).ok => Candidate(f, nameTag) # <<>>)) =>
           e.name = CallPrefix
                      \o (IF TagLookup(f.tag, nameTag).ok
                            THEN Candidate(f, nameTag) ELSE f.name)
                      \o IndexSuffix(e)

\* The tag "n,o" resolves to "n", under a prefix, beside an untagged field
\* reported under its declared name.
C6_Witness ==
  /\ op = "ZeroValueExportedStructFieldNames"
  /\ nameTag = TagKey
  /\ \E i, j \in Out :
       /\ FieldAt(st, res.out[i].src).tag = Tag(<<"n", ",", "o">>)
       /\ res.out[i].name = <<"p", ".", "n", "[", "1", "]">>
       /\ FieldAt(st, res.out[j].src).tag = NoTag
       /\ res.out[j].name = <<"p", ".">> \o FieldAt(st, res.out[j].src).name

(***************************************************************************)
(* C7: wherever a tag-derived name is produced, a tag that is present with *)
(* an empty part before the first comma resolves to the declared field     *)
(* name, never to the empty string. (exportedFieldName yields "".)         *)
(***************************************************************************)
C7_EmptyCandidateIsDeclaredName ==
  (op \in NameOps /\ Returned) =>
    \A i \in Out :
      LET e == res.out[i]
          f == FieldAt(st, e.src)
      IN (TopLevelName(e) /\ TagLookup(f.tag, nameTag).ok
            /\ Candidate(f, nameTag) = <<>>) =>
           e.name = CallPrefix \o f.name \o IndexSuffix(e)

\* The fields and elements validateFunc was invoked for.
Keys == { <<res.calls[i].src, res.calls[i].idx>> : i \in 1..Len(res.calls) }

\* The invocations made for one field or element, in the order made.
CallsOf(k) == SelectSeq(res.calls, LAMBDA c : c.src = k[1] /\ c.idx = k[2])

\* The FieldErrors returned for one field or element.
ErrorsOf(k) == { i \in Out : res.out[i].src = k[1] /\ res.out[i].idx = k[2] }

\* The value of the field, or of its element, that a key stands for.
ValueAt(k) ==
  IF k[2] = -1 THEN FieldAt(st, k[1]).val
               ELSE FieldAt(st, k[1]).val.elems[k[2] + 1]

\* reflect.Value.CanAddr of that value: an element of a slice always is
\* addressable; a field, and an element of an array, when the struct was
\* passed by pointer (ValidateStructFields descends through struct values
\* only, which hand their addressability down).
CanAddrAt(k) ==
  \/ k[2] # -1 /\ FieldAt(st, k[1]).val.kind = "slice"
  \/ st.kind = "ptr"

(***************************************************************************)
(* C8: ValidateStructFields runs validateFunc on a field in the order bare *)
(* value, address, dereferenced pointee; the address step happens only if  *)
(* the value step returned nil and the value is addressable; no step is    *)
(* run after a step of the same field returned an error, and that first    *)
(* error is the field's result.                                            *)
(***************************************************************************)
C8_ValidationChain ==
  op = "ValidateStructFields" =>
    \A k \in Keys :
      LET cs == CallsOf(k)
          v == ValueAt(k)
      IN /\ \A i, j \in 1..Len(res.calls) :
              (i < j /\ <<res.calls[i].src, res.calls[i].idx>> = k
                     /\ <<res.calls[j].src, res.calls[j].idx>> = k) =>
                \A m \in i..j : <<res.calls[m].src, res.calls[m].idx>> = k
         /\ Len(cs) <= 3
         /\ cs[1].step = "value" /\ cs[1].arg = v
         /\ Len(cs) >= 2 =>
              /\ cs[2].step = "addr" /\ cs[2].arg = PtrV(FALSE, v)
              /\ cs[1].err = NoError
              /\ CanAddrAt(k)
         /\ Len(cs) >= 3 =>
              /\ cs[3].step = "elem" /\ cs[3].arg = v.elem
              /\ v.kind = "ptr" /\ ~v.isNil
         /\ \A i \in 1..(Len(cs) - 1) : cs[i].err = NoError
         /\ \A i \in ErrorsOf(k) :
              res.out[i].err # NoError /\ res.out[i].err = cs[Len(cs)].err

\* All three steps ran for a field and the third returned the error that
\* is the field's result.
C8_Witness ==
  /\ op = "ValidateStructFields"
  /\ \E k \in Keys :
       /\ Len(CallsOf(k)) = 3
       /\ CallsOf(k)[3].err # NoError
       /\ \E i \in ErrorsOf(k) : res.out[i].err = CallsOf(k)[3].err

(***************************************************************************)
(* C9: in ValidateStructFields, for every processed field or element that  *)
(* is a non-nil pointer and for which no earlier step returned an error,   *)
(* validateFunc is also invoked on the dereferenced pointee, also when the *)
(* field is not addressable. (The code does so only when it is.)           *)
(***************************************************************************)
C9_PointeeValidated ==
  op = "ValidateStructFields" =>
    \A k \in Keys :
      LET cs == CallsOf(k)
          v == ValueAt(k)
      IN (/\ v.kind = "ptr" /\ ~v.isNil
          /\ \A i \in 1..Len(cs) : cs[i].step # "elem" => cs[i].err = NoError) =>
           \E i \in 1..Len(cs) : cs[i].step = "elem"

RECURSIVE PathName(_)
\* The resolved name of the field at path p: the caller's prefix, the
\* resolved names of the enclosing struct fields and its own, "." between.
PathName(p) ==
  getFieldName(FieldAt(st, p),
               IF Len(p) = 1 THEN namePrefix
               ELSE PathName(SubSeq(p, 1, Len(p) - 1)) \o <<".">>,
               nameTag).name

\* The fields ValidateStructFields is to process: exported and not ignored,
\* at the top level or in a processed field holding a struct value.
ProcessedPaths ==
  { p \in FieldPaths(st) :
      \A n \in 1..Len(p) :
        LET q == SubSeq(p, 1, n)
        IN /\ FieldAt(st, q).exported
           /\ ~ignoreField(namesToValidate, PathName(q))
           /\ n < Len(p) => FieldAt(st, q).val.kind = "struct" }

\* Those fields, and the elements of those that hold a slice or an array.
ProcessedKeys ==
  { <<p, -1>> : p \in ProcessedPaths }
    \cup UNION { { <<p, j>> : j \in 0..(Len(FieldAt(st, p).val.elems) - 1) } :
                 p \in { q \in ProcessedPaths :
                           FieldAt(st, q).val.kind \in {"slice", "array"} } }

(***************************************************************************)
(* C10: ValidateStructFields never aborts on a validation error: it        *)
(* panics only on a processed map field, and when it returns, validateFunc *)
(* was invoked for every processed field and every element of a processed  *)
(* slice or array, each of them has exactly one FieldError, under its own  *)
(* resolved name, if a step of its chain returned an error and none        *)
(* otherwise, and there is no other FieldError.                            *)
(***************************************************************************)
C10_OneErrorPerInvalidField ==
  (op = "ValidateStructFields" /\ DerefValue(st).kind = "struct") =>
    /\ res.panicked => \E p \in ProcessedPaths : FieldAt(st, p).val.kind = "map"
    /\ ~res.panicked =>
         /\ Keys = ProcessedKeys
         /\ \A k \in Keys :
              Cardinality(ErrorsOf(k)) =
                IF \E i \in 1..Len(CallsOf(k)) : CallsOf(k)[i].err # NoError
                  THEN 1 ELSE 0
         /\ \A i \in Out :
              /\ <<res.out[i].src, res.out[i].idx>> \in Keys
              /\ res.out[i].name = PathName(res.out[i].src) \o IndexSuffix(res.out[i])

\* {Name string; Age int} with an empty name and a negative age yields
\* exactly the two FieldErrors, in field order.
C10_Witness ==
  /\ op = "ValidateStructFields"
  /\ validateFunc = "valueRules"
  /\ DerefValue(st) = MkStruct(<<T(TRUE, FALSE, NoTag, StrV(<<>>)),
                                 T(TRUE, FALSE, NoTag, IntV(-1))>>, 1)
  /\ namePrefix = <<>>
  /\ namesToValidate = <<>>
  /\ [i \in Out |-> <<res.out[i].name, res.out[i].err>>]
       = << <<<<"A">>, "cannot be empty">>, <<<<"B">>, "must be positive">> >>

\* The part of the entries of q that p, a shorter path, begins.
Within(p, q) == Len(p) < Len(q) /\ SubSeq(q, 1, Len(p)) = p

(***************************************************************************)
(* C11: in ValidateStructFields the descent does not depend on the field's *)
(* own result: for every field validateFunc was invoked on, with or        *)
(* without an error of its own, every exported sub-field of a struct value *)
(* that passes the ignore rule under the prefix "<name>." is validated and *)
(* reported under that prefixed name, every element of a slice or array is *)
(* run through the chain and reported as "<name>[index]" exactly when a    *)
(* step returned an error, and nothing inside an element is validated.     *)
(***************************************************************************)
C11_DescentIndependentOfResult ==
  (op = "ValidateStructFields" /\ Returned) =>
    \A p \in FieldPaths(st) :
      <<p, -1>> \in Keys =>
        LET v == FieldAt(st, p).val
            name == PathName(p)
        IN /\ v.kind = "struct" =>
                \A i \in 1..Len(v.fields) :
                  LET sub == getFieldName(v.fields[i], name \o <<".">>, nameTag).name
                  IN (v.fields[i].exported /\ ~ignoreField(namesToValidate, sub)) =>
                       /\ <<p \o <<i>>, -1>> \in Keys
                       /\ CallsOf(<<p \o <<i>>, -1>>)[1].arg = v.fields[i].val
                       /\ \A e \in ErrorsOf(<<p \o <<i>>, -1>>) : res.out[e].name = sub
           /\ v.kind \in {"slice", "array"} =>
                /\ \A j \in 0..(Len(v.elems) - 1) :
                     /\ <<p, j>> \in Keys
                     /\ CallsOf(<<p, j>>)[1].arg = v.elems[j + 1]
                     /\ (ErrorsOf(<<p, j>>) # {}) <=>
                          \E c \in 1..Len(CallsOf(<<p, j>>)) :
                            CallsOf(<<p, j>>)[c].err # NoError
                     /\ \A e \in ErrorsOf(<<p, j>>) :
                          res.out[e].name = IndexedName(name, j)
                /\ \A c \in 1..Len(res.calls) :
                     /\ ~Within(p, res.calls[c].src)
                     /\ res.calls[c].src = p =>
                          res.calls[c].idx \in -1..(Len(v.elems) - 1)

\* A struct field and a slice field that validateFunc rejects: the
\* sub-field is still reported as "A.X", the element as "A[0]", and the
\* struct element's own fields are not validated.
C11_Witness ==
  /\ op = "ValidateStructFields"
  /\ Returned
  /\ validateFunc = "rejectAll"
  /\ namePrefix = <<>>
  /\ \E i, j \in Out :
       /\ res.out[i].src = <<1>> /\ res.out[i].name = <<"A">>
       /\ \/ /\ FieldAt(st, <<1>>).val = InnerZero
             /\ res.out[j].src = <<1, 1>> /\ res.out[j].name = <<"A", ".", "X">>
          \/ /\ FieldAt(st, <<1>>).val = SliceV(FALSE, <<InnerMixed>>)
             /\ res.out[j].src = <<1>> /\ res.out[j].idx = 0
             /\ res.out[j].name = <<"A", "[", "0", "]">>
             /\ Len(res.out) = Len(DerefValue(st).fields) + 1

\* The names on the allow-list.
Listed == { namesToValidate[i] : i \in 1..Len(namesToValidate) }

\* The paths p begins with, p included.
Prefixes(p) == { SubSeq(p, 1, n) : n \in 1..Len(p) }

\* A value ZeroValueExportedStructFieldNames and ValidateStructFields look
\* for fields in: a struct value and, for zero detection only, a non-nil
\* pointer to a struct.
DescendedInto(v) ==
  \/ v.kind = "struct"
  \/ /\ op = "ZeroValueExportedStructFieldNames"
     /\ v.kind = "ptr" /\ ~v.isNil /\ v.elem.kind = "struct"

\* The fields reached through exported fields holding values that are
\* descended into.
ReachablePaths ==
  { p \in FieldPaths(st) :
      \A q \in Prefixes(p) :
        /\ FieldAt(st, q).exported
        /\ q # p => DescendedInto(FieldAt(st, q).val) }

\* A value the zero check reports under the field's own name when zero.
ZeroLeaf(v) ==
  v.kind \in {"int", "string", "ptr", "slice", "map"} /\ IsZero(v)

(***************************************************************************)
(* C12: with a non-empty namesToValidate, ZeroValueExportedStructFieldNames*)
(* and ValidateStructFields process a field, at any nesting level, only if *)
(* its full resolved name is on the list and so is that of every field it  *)
(* is nested in; with an empty list no field is filtered out: every        *)
(* reachable exported field whose resolved name has no hyphen is           *)
(* processed.                                                              *)
(***************************************************************************)
C12_AllowList ==
  op \in ValidateOps =>
    /\ namesToValidate # <<>> =>
         /\ \A i \in Out :
              \A q \in Prefixes(res.out[i].src) : PathName(q) \in Listed
         /\ \A i \in 1..Len(res.calls) :
              \A q \in Prefixes(res.calls[i].src) : PathName(q) \in Listed
    /\ (namesToValidate = <<>> /\ Returned) =>
         \A p \in ReachablePaths :
           (\A q \in Prefixes(p) : ~Contains(PathName(q), "-")) =>
             IF op = "ValidateStructFields" THEN <<p, -1>> \in Keys
             ELSE ZeroLeaf(FieldAt(st, p).val) =>
                    \E i \in Out : res.out[i].src = p /\ res.out[i].idx = -1

\* {A struct{X int}; B int}, all zero, with the list "A", "A.X": exactly
\* "A.X" is reported.
C12_Witness ==
  /\ op = "ZeroValueExportedStructFieldNames"
  /\ namePrefix = <<>>
  /\ namesToValidate = << <<"A">>, <<"A", ".", "X">> >>
  /\ DerefValue(st) = MkStruct(<<T(TRUE, FALSE, NoTag, InnerZero),
                                 T(TRUE, FALSE, NoTag, IntV(0))>>, 1)
  /\ [i \in Out |-> res.out[i].name] = << <<"A", ".", "X">> >>

(***************************************************************************)
(* C13 as claimed: with namesToValidate = ["A"] and an empty prefix the    *)
(* result of ZeroValueExportedStructFieldNames contains no name other than *)
(* "A".                                                                    *)
(***************************************************************************)
C13_OnlyListedName ==
  (op = "ZeroValueExportedStructFieldNames" /\ namePrefix = <<>>
     /\ namesToValidate = << <<"A">> >>) =>
    \A i \in Out : res.out[i].name = <<"A">>

(***************************************************************************)
(* C13 amended: with namesToValidate = ["A"] and an empty prefix the       *)
(* result of ZeroValueExportedStructFieldNames contains no name other than *)
(* "A" and, when the field named A holds a slice or an array, the names    *)
(* "A[index]" of its zero elements.                                        *)
(***************************************************************************)
C13_OnlyListedNameOrItsElements ==
  (op = "ZeroValueExportedStructFieldNames" /\ namePrefix = <<>>
     /\ namesToValidate = << <<"A">> >>) =>
    \A i \in Out :
      LET e == res.out[i]
          v == FieldAt(st, e.src).val
      IN /\ Len(e.src) = 1
         /\ PathName(e.src) = <<"A">>
         /\ \/ e.idx = -1 /\ e.name = <<"A">>
            \/ /\ v.kind \in {"slice", "array"}
               /\ e.idx \in 0..(Len(v.elems) - 1)
               /\ IsZero(v.elems[e.idx + 1])
               /\ e.name = IndexedName(<<"A">>, e.idx)

\* A is a slice with zero elements at 1 and 3 and B is a zero int:
\* "A[1]" and "A[3]" are reported, B is not.
C13_Witness ==
  /\ op = "ZeroValueExportedStructFieldNames"
  /\ namePrefix = <<>>
  /\ namesToValidate = << <<"A">> >>
  /\ Returned
  /\ Len(DerefValue(st).fields) = 2
  /\ DerefValue(st).fields[2].val = IntV(0)
  /\ [i \in Out |-> res.out[i].name]
       = << <<"A", "[", "1", "]">>, <<"A", "[", "3", "]">> >>

(***************************************************************************)
(* C14: the name getFieldName resolves for a field, put into               *)
(* namesToValidate verbatim, is never rejected: ignoreField returns false  *)
(* for it, so an exported field listed by its resolved name is processed.  *)
(* (The code rejects a listed name that contains a hyphen.)                *)
(***************************************************************************)
C14_ListedNameNotRejected ==
  (op \in ValidateOps /\ Returned) =>
    \A p \in TopPaths :
      LET name == getFieldName(FieldAt(st, p), namePrefix, nameTag).name
      IN (FieldAt(st, p).exported /\ name \in Listed) =>
           /\ ~ignoreField(namesToValidate, name)
           /\ IF op = "ValidateStructFields" THEN <<p, -1>> \in Keys
              ELSE ZeroLeaf(FieldAt(st, p).val) =>
                     \E i \in Out : res.out[i].src = p

\* The fields ZeroValueExportedStructFieldNames and ValidateStructFields
\* process: reachable, and neither they nor a field they are nested in
\* rejected by ignoreField.
Processed ==
  { p \in ReachablePaths :
      \A q \in Prefixes(p) : ~ignoreField(namesToValidate, PathName(q)) }

\* The entries returned for the field at p, in the order returned.
OutOf(p) == SelectSeq(res.out, LAMBDA e : e.src = p)

(***************************************************************************)
(* C15: in ZeroValueExportedStructFieldNames, for a processed slice or     *)
(* array field: a nil slice is reported once under the field's resolved    *)
(* name; otherwise exactly the zero elements are reported, in index order, *)
(* as "<name>[index]", and the container's own name is not reported, for   *)
(* an array, a non-nil slice or an empty one.                              *)
(***************************************************************************)
C15_SliceElements ==
  (op = "ZeroValueExportedStructFieldNames" /\ Returned) =>
    \A p \in Processed :
      LET v == FieldAt(st, p).val
          mine == OutOf(p)
      IN v.kind \in {"slice", "array"} =>
           IF v.kind = "slice" /\ v.isNil
             THEN mine = <<Named(p, -1, PathName(p))>>
             ELSE /\ \A i \in 1..Len(mine) :
                       /\ mine[i].idx \in 0..(Len(v.elems) - 1)
                       /\ IsZero(v.elems[mine[i].idx + 1])
                       /\ mine[i].name = IndexedName(PathName(p), mine[i].idx)
                  /\ \A i, j \in 1..Len(mine) : i < j => mine[i].idx < mine[j].idx
                  /\ \A j \in 0..(Len(v.elems) - 1) :
                       IsZero(v.elems[j + 1]) =>
                         \E i \in 1..Len(mine) : mine[i].idx = j

\* The slice [1, 0, -1, 0] tagged "n,o" under the prefix "p." yields
\* exactly "p.n[1]" and "p.n[3]".
C15_Witness ==
  /\ op = "ZeroValueExportedStructFieldNames"
  /\ Returned
  /\ namePrefix = <<"p", ".">>
  /\ nameTag = TagKey
  /\ \E p \in TopPaths :
       /\ FieldAt(st, p).val
            = SliceV(FALSE, <<IntV(1), IntV(0), IntV(-1), IntV(0)>>)
       /\ [i \in 1..Len(OutOf(p)) |-> OutOf(p)[i].name]
            = << <<"p", ".", "n", "[", "1", "]">>,
                 <<"p", ".", "n", "[", "3", "]">> >>

(***************************************************************************)
(* C16: ZeroValueExportedStructFieldNames, called with a struct, returns a *)
(* name list unless a processed field holds a non-nil map, and panics if   *)
(* and only if one does; a processed nil map field is reported once, under *)
(* its resolved name.                                                      *)
(***************************************************************************)
C16_ZeroPanicsOnlyOnMap ==
  (op = "ZeroValueExportedStructFieldNames" /\ DerefValue(st).kind = "struct") =>
    /\ res.panicked <=>
         \E p \in Processed :
           FieldAt(st, p).val.kind = "map" /\ ~FieldAt(st, p).val.isNil
    /\ res.panicked => res.out = <<>>
    /\ ~res.panicked =>
         \A p \in Processed :
           FieldAt(st, p).val.kind = "map" =>
             OutOf(p) = <<Named(p, -1, PathName(p))>>

\* A non-nil map in a struct behind a pointer field, after a zero int that
\* would have been reported: the call panics.
C16_Witness ==
  /\ op = "ZeroValueExportedStructFieldNames"
  /\ res.panicked
  /\ \E p \in Processed :
       /\ Len(p) = 2
       /\ FieldAt(st, SubSeq(p, 1, 1)).val = PtrV(FALSE, InnerMap)
       /\ FieldAt(st, p).val = MapV(FALSE)

(***************************************************************************)
(* C17: ValidateStructFields, called with a struct, panics if and only if  *)
(* a processed field is of map kind, nil or not, and then returns no       *)
(* FieldError list; a map in a field that is unexported, ignored or not on *)
(* the allow-list does not make it panic.                                  *)
(***************************************************************************)
C17_ValidatePanicsOnMap ==
  (op = "ValidateStructFields" /\ DerefValue(st).kind = "struct") =>
    /\ res.panicked <=> \E p \in Processed : FieldAt(st, p).val.kind = "map"
    /\ res.panicked => res.out = <<>>

\* A nil map in a processed field, after a field that validateFunc
\* rejected: the call panics.
C17_Witness ==
  /\ op = "ValidateStructFields"
  /\ res.panicked
  /\ validateFunc = "rejectAll"
  /\ \E p \in Processed :
       /\ p = <<2>>
       /\ FieldAt(st, p).val = MapV(TRUE)
       /\ \E i \in 1..Len(res.calls) : res.calls[i].src = <<1>>

\* The operations whose argument is a reflect.Type, and the others, whose
\* argument is a value.
TypeOps ==
  { "FlatStructFieldCount", "FlatStructFieldNames", "FlatStructFieldTags",
    "FlatStructFieldTagsOrNames", "FlatExportedNamedStructFields" }

\* The operations that traverse the fields of a struct.
TraversalOps ==
  TypeOps \cup
  { "FlatStructFieldValues", "FlatExportedStructFields",
    "EnumFlatExportedStructFields", "FlatExportedStructFieldsIter",
    "FlatExportedStructFieldValueNames", "FlatExportedStructFieldValueNameMap",
    "ZeroValueExportedStructFieldNames", "ValidateStructFields" }

\* The argument of the call is no struct after pointer dereferencing: a
\* type argument is dereferenced as a type, a value argument as a value,
\* which a nil pointer ends.
NotAStruct ==
  /\ op \in TraversalOps
  /\ IF op \in TypeOps THEN DerefType(st).kind # "struct"
                        ELSE DerefValue(st).kind # "struct"

(***************************************************************************)
(* C18: every traversal operation called with an argument that is no       *)
(* struct after pointer dereferencing (a nil pointer to a struct included, *)
(* for the operations that take a value) panics before emitting an entry   *)
(* and before invoking the callback, yield or validateFunc.                *)
(***************************************************************************)
C18_NonStructPanics ==
  NotAStruct => res.panicked /\ res.out = <<>> /\ res.calls = <<>>

\* ValidateStructFields on a nil pointer to a struct, with a validateFunc
\* that rejects everything: a panic, no invocation.
C18_Witness ==
  /\ op = "ValidateStructFields"
  /\ validateFunc = "rejectAll"
  /\ st = PtrV(TRUE, InnerMixed)
  /\ res.panicked
  /\ res.calls = <<>>

\* The operations that emit exported fields only, and those that emit all.
ExportedOps ==
  { "FlatExportedStructFields", "EnumFlatExportedStructFields",
    "FlatExportedStructFieldsIter", "FlatExportedStructFieldValueNames",
    "FlatExportedNamedStructFields" }
UnfilteredOps ==
  { "FlatStructFieldCount", "FlatStructFieldNames", "FlatStructFieldValues" }

\* The entries an operation emitted: returned, or passed to the callback
\* or to yield.
Emitted ==
  IF op \in {"EnumFlatExportedStructFields", "FlatExportedStructFieldsIter"}
    THEN res.calls ELSE res.out

(***************************************************************************)
(* C19: the exported-only operations never emit an entry for an unexported *)
(* field, at any embedding depth; the unfiltered operations count and emit *)
(* every flattened (non-anonymous) field, exported or not.                 *)
(***************************************************************************)
C19_ExportedOnly ==
  /\ op \in ExportedOps =>
       \A i \in 1..Len(Emitted) :
         /\ FieldAt(st, Emitted[i].src).exported
         /\ ~FieldAt(st, Emitted[i].src).anonymous
  /\ (op \in UnfilteredOps /\ Returned) =>
       IF op = "FlatStructFieldCount"
         THEN res.out = Cardinality(FlatPaths(st))
         ELSE /\ Len(res.out) = Cardinality(FlatPaths(st))
              /\ { res.out[i].src : i \in Out } = FlatPaths(st)

\* An embedded struct with an unexported field between two exported ones:
\* the count is that of all fields, the callback sees the exported ones.
C19_Witness ==
  /\ DerefValue(st) = MkStruct(<<T(TRUE, TRUE, NoTag, InnerMixed),
                                 T(TRUE, FALSE, NoTag, IntV(0))>>, 1)
  /\ \/ op = "FlatStructFieldCount" /\ res.out = 4
     \/ /\ op = "EnumFlatExportedStructFields"
        /\ [i \in 1..Len(res.calls) |-> res.calls[i].field]
             = <<<<"X">>, <<"Z">>, <<"B">>>>

(***************************************************************************)
(* C20: the three iteration forms agree: the callback invocations of       *)
(* EnumFlatExportedStructFields and the sequence FlatExportedStructFieldsIter *)
(* yields to a consumer that ranges to the end are the entries of the      *)
(* slice FlatExportedStructFields returns for the same argument, in the    *)
(* same order, and the three panic for the same arguments.                 *)
(***************************************************************************)
C20_IterationFormsAgree ==
  (\/ op = "EnumFlatExportedStructFields"
   \/ op = "FlatExportedStructFieldsIter" /\ consumer = -1) =>
    LET slice == FlatExportedStructFields(st, <<>>)
    IN /\ res.panicked = slice.panicked
       /\ ~res.panicked => res.calls = slice.out

\* An iterator ranged over to the end that yielded the fields of an
\* embedded struct and a field after them.
C20_Witness ==
  /\ op = "FlatExportedStructFieldsIter"
  /\ consumer = -1
  /\ ~res.panicked
  /\ DerefValue(st) = MkStruct(<<T(TRUE, TRUE, NoTag, InnerMixed),
                                 T(TRUE, FALSE, NoTag, IntV(0))>>, 1)
  /\ res.calls = FlatExportedStructFields(st, <<>>).out
  /\ Len(res.calls) = 3

\* What the iterator yields to a consumer that ranges to the end.
FullIteration == FlatExportedStructFieldsIter(st, <<>>, Consuming(-1))

(***************************************************************************)
(* C21: once the consumer's yield has returned false (in its consumer-th   *)
(* invocation) yield is not invoked again, wherever the stop happens, at   *)
(* the top level or inside nested embedded structs; the fields yielded are *)
(* a prefix of the full flattened sequence, and the whole of it when the   *)
(* consumer did not stop.                                                  *)
(***************************************************************************)
C21_EarlyTermination ==
  (op = "FlatExportedStructFieldsIter" /\ consumer # -1) =>
    /\ Len(res.calls) <= consumer
    /\ Len(res.calls) <= Len(FullIteration.calls)
    /\ res.calls = SubSeq(FullIteration.calls, 1, Len(res.calls))
    /\ res.stopped <=> Len(res.calls) = consumer
    /\ res.stopped => ~res.panicked
    /\ ~res.stopped =>
         res.calls = FullIteration.calls /\ res.panicked = FullIteration.panicked

\* The consumer breaks in its first iteration, on the field of a struct
\* embedded in an embedded struct, with two more fields to come.
C21_Witness ==
  /\ op = "FlatExportedStructFieldsIter"
  /\ consumer = 1
  /\ res.stopped
  /\ Len(res.calls) = 1
  /\ Len(res.calls[1].src) = 3
  /\ Len(FullIteration.calls) = 3

(***************************************************************************)
(* C22: FlatStructFieldTags returns for every flattened field, those of    *)
(* embedded structs included, the field's tag value for tagKey ("" without *)
(* such a tag); FlatStructFieldTagsOrNames returns the tag value, or the   *)
(* field name when there is none. (For the fields of an embedded struct    *)
(* the code returns the field names in both.)                              *)
(***************************************************************************)
C22_TagsOfAllFlattenedFields ==
  (op \in {"FlatStructFieldTags", "FlatStructFieldTagsOrNames"} /\ Returned) =>
    /\ { res.out[i].src : i \in Out } = FlatPaths(st)
    /\ \A i \in Out :
         LET f == FieldAt(st, res.out[i].src)
         IN res.out[i].name =
              IF op = "FlatStructFieldTagsOrNames" /\ TagGet(f.tag, nameTag) = <<>>
                THEN f.name ELSE TagGet(f.tag, nameTag)

\* The resolved name of a field by itself: the part of its tag value before
\* the first comma, its declared name when that is empty.
OwnName(f) ==
  IF Candidate(f, nameTag) = <<>> THEN f.name ELSE Candidate(f, nameTag)

RECURSIVE Dotted(_)
\* The own names of the fields along the path p, joined by ".".
Dotted(p) ==
  IF Len(p) = 1 THEN OwnName(FieldAt(st, p))
  ELSE Dotted(SubSeq(p, 1, Len(p) - 1)) \o <<".">> \o OwnName(FieldAt(st, p))

(***************************************************************************)
(* C23: every name ZeroValueExportedStructFieldNames returns and every     *)
(* FieldError.FieldName of ValidateStructFields is namePrefix, then the    *)
(* resolved names of the enclosing struct fields and the field's own       *)
(* joined by ".", then "[index]" for an element of a slice or array.       *)
(***************************************************************************)
C23_NameForm ==
  op \in ValidateOps =>
    \A i \in Out :
      LET e == res.out[i]
      IN /\ Len(e.name) >= Len(namePrefix)
         /\ SubSeq(e.name, 1, Len(namePrefix)) = namePrefix
         /\ e.name = namePrefix \o Dotted(e.src)
                        \o (IF e.idx = -1 THEN <<>>
                            ELSE <<"[", ToString(e.idx), "]">>)

\* Under the prefix "p." a field X of the struct in field A is named
\* "p.A.X" and an element of a slice tagged "n,o" is named "p.n[1]".
C23_Witness ==
  /\ op \in ValidateOps
  /\ namePrefix = <<"p", ".">>
  /\ \E i \in Out :
       \/ res.out[i].name = <<"p", ".", "A", ".", "X">>
       \/ res.out[i].name = <<"p", ".", "n", "[", "1", "]">>

(***************************************************************************)
(* C24: IsNil never panics; it returns true exactly when the value is      *)
(* invalid, or is of kind chan, func, map, pointer, interface or slice and *)
(* nil, and false for every other value, zero scalars and structs          *)
(* included.                                                               *)
(***************************************************************************)
C24_IsNilTotal ==
  op = "IsNil" =>
    /\ ~res.panicked
    /\ res.out <=>
         \/ st.kind = "invalid"
         \/ /\ st.kind \in {"chan", "func", "map", "ptr", "interface", "slice"}
            /\ st.isNil

\* IsNil of the int 0 is false, without a panic.
C24_Witness ==
  /\ op = "IsNil"
  /\ st = IntV(0)
  /\ ~res.panicked
  /\ res.out = FALSE

(***************************************************************************)
(* C25 as claimed: IsZero of a non-nil pointer is true if and only if the  *)
(* value pointed to deep-equals the zero value of its type; IsZero(nil) is *)
(* true.                                                                   *)
(***************************************************************************)
C25_PointeeDecides ==
  op = "IsZero" =>
    /\ (st.kind = "ptr" /\ ~st.isNil) =>
         (res.out <=> DeepEqual(st.elem, Zero(st.elem)))
    /\ ~IsValid(st) => res.out

(***************************************************************************)
(* C25 amended: IsZero of a non-nil pointer is false whatever it points    *)
(* to, the pointer being compared with the nil pointer that is the zero    *)
(* value of its type; IsZero of a nil pointer and IsZero(nil) are true.    *)
(***************************************************************************)
C25_NonNilPointerIsNotZero ==
  op = "IsZero" =>
    /\ st.kind = "ptr" => (res.out <=> st.isNil)
    /\ ~IsValid(st) => res.out

\* IsZero(new(int)) is false.
C25_Witness ==
  /\ op = "IsZero"
  /\ st = PtrV(FALSE, IntV(0))
  /\ res.out = FALSE

(***************************************************************************)
(* C26: IsZero is true for an empty slice that is not nil, as it is for 0, *)
(* "" and nil. (reflect.DeepEqual tells an empty slice from a nil one.)    *)
(***************************************************************************)
C26_EmptySliceIsZero ==
  op = "IsZero" =>
    /\ (st.kind = "slice" /\ st.elems = <<>>) => res.out
    /\ st \in {IntV(0), StrV(<<>>), InvalidV} => res.out

RECURSIVE EndsInNilPointer(_)
\* The chain of pointers from v ends in a nil pointer.
EndsInNilPointer(v) ==
  v.kind = "ptr" /\ (v.isNil \/ EndsInNilPointer(v.elem))

(***************************************************************************)
(* C27: DerefValue and DerefValueAndType follow pointers to a value that   *)
(* is no pointer or to a nil pointer; when the chain ends in a nil pointer *)
(* they do not panic and the value returned is invalid (IsValid() is       *)
(* false). (The code returns the nil pointer, a valid Value.)              *)
(***************************************************************************)
C27_NilPointerYieldsInvalid ==
  op \in {"DerefValue", "DerefValueAndType"} =>
    LET v == IF op = "DerefValue" THEN res.out ELSE res.out.v
    IN /\ IsValid(st) =>
            /\ ~res.panicked
            /\ v.kind = "ptr" => v.isNil
       /\ EndsInNilPointer(st) => ~res.panicked /\ ~IsValid(v)

\* A value holding a struct: a struct, or a non-nil pointer to one.
HoldsStruct(v) ==
  \/ v.kind = "struct"
  \/ v.kind = "ptr" /\ ~v.isNil /\ v.elem.kind = "struct"

(***************************************************************************)
(* C28: in ZeroValueExportedStructFieldNames a field holding a struct, by  *)
(* value or behind a non-nil pointer, is never reported under its own      *)
(* name, also when the struct is all zero or has no exported field: the    *)
(* names reported for it are those of its descendants, beginning with      *)
(* "<name>.".                                                              *)
(***************************************************************************)
C28_StructFieldNotReported ==
  (op = "ZeroValueExportedStructFieldNames" /\ Returned) =>
    \A p \in FieldPaths(st) :
      HoldsStruct(FieldAt(st, p).val) =>
        \A i \in Out :
          LET e == res.out[i]
              own == namePrefix \o Dotted(p)
          IN /\ e.src # p
             /\ e.name # own
             /\ Within(p, e.src) =>
                  /\ Len(e.name) > Len(own) + 1
                  /\ SubSeq(e.name, 1, Len(own) + 1) = own \o <<".">>

\* An all-zero struct in field A: "A.X" is reported, "A" is not.
C28_Witness ==
  /\ op = "ZeroValueExportedStructFieldNames"
  /\ Returned
  /\ namePrefix = <<>>
  /\ FieldPaths(st) # {}
  /\ FieldAt(st, <<1>>).val \in {InnerZero, PtrV(FALSE, InnerZero)}
  /\ ~FieldAt(st, <<1>>).anonymous
  /\ \E i \in Out : res.out[i].name = <<"A", ".", "X">>
  /\ \A i \in Out : res.out[i].name # <<"A">>

\* A non-nil pointer to a struct.
PointerToStruct(v) == v.kind = "ptr" /\ ~v.isNil /\ v.elem.kind = "struct"

(***************************************************************************)
(* C29: ValidateStructFields descends into struct values only: for a field *)
(* that is a non-nil pointer to a struct validateFunc is applied to the    *)
(* pointer and, when the field is addressable, to its address and to the   *)
(* struct pointed to as a whole, never to a field of that struct, and no   *)
(* FieldError is named "<name>.<subfield>"; ZeroValueExportedStructFieldNames*)
(* does descend: it reports the zero fields of the struct pointed to.      *)
(***************************************************************************)
C29_NoDescentThroughPointer ==
  /\ op = "ValidateStructFields" =>
       \A p \in FieldPaths(st) :
         PointerToStruct(FieldAt(st, p).val) =>
           /\ \A i \in 1..Len(res.calls) : ~Within(p, res.calls[i].src)
           /\ \A i \in Out : ~Within(p, res.out[i].src)
           /\ \A i \in 1..Len(res.calls) :
                res.calls[i].src = p =>
                  /\ res.calls[i].arg
                       \in { FieldAt(st, p).val, PtrV(FALSE, FieldAt(st, p).val),
                             FieldAt(st, p).val.elem }
                  /\ res.calls[i].step # "value" => CanAddrAt(<<p, -1>>)
  /\ (op = "ZeroValueExportedStructFieldNames" /\ Returned) =>
       \A p \in Processed :
         (Len(p) >= 2 /\ PointerToStruct(FieldAt(st, SubSeq(p, 1, Len(p) - 1)).val)
            /\ ZeroLeaf(FieldAt(st, p).val)) =>
           \E i \in Out :
             res.out[i].src = p /\ res.out[i].name = namePrefix \o Dotted(p)

\* A pointer to a struct whose field X holds -1, in a struct passed by
\* pointer, validated with the README's rules: three invocations for the
\* field, the last on the struct as a whole, and no error for X.
C29_Witness ==
  /\ op = "ValidateStructFields"
  /\ validateFunc = "valueRules"
  /\ Returned
  /\ \E p \in TopPaths :
       /\ FieldAt(st, p).val = PtrV(FALSE, InnerMixed)
       /\ Len(CallsOf(<<p, -1>>)) = 3
       /\ CallsOf(<<p, -1>>)[3].arg = InnerMixed
       /\ \A i \in Out : res.out[i].src # p /\ ~Within(p, res.out[i].src)

(***************************************************************************)
(* C30: dereferencing always terminates: the loops of DerefValue,          *)
(* DerefValueAndType and DerefType return after finitely many iterations,  *)
(* for every input. (A pointer chain that comes back to itself, and the    *)
(* pointer type that is its own element type, keep the loop going.)        *)
(***************************************************************************)
C30_DerefTerminates == <>(loop.done)

====
